---- MODULE Spec2Model ----
(***************************************************************************)
(* A model of sqlite_worker.SqliteWorker (src/sqlite_worker/main.py): the  *)
(* bounded request queue, the worker loop that owns the sqlite connection, *)
(* the token / event / result registry, and the caller-side operations     *)
(* execute, fetch_results and close.  Every caller operation and the       *)
(* worker loop are split at the points where the Python code can be        *)
(* interleaved with another thread (queue operations, lock acquisitions,   *)
(* event waits).                                                           *)
(***************************************************************************)
EXTENDS Integers, Sequences, FiniteSets, TLC

VARIABLES
    sql_queue,       \* self._sql_queue: the requests not yet dequeued, oldest first
    results,         \* self._results: token -> stored value
    select_events,   \* self._select_events: token -> is the Event set
    close_event,     \* self._close_event
    in_transaction,  \* self._in_transaction
    wpc,             \* position of the worker thread in _process_queries
    cur,             \* (token, query, values) the worker loop holds
    count,           \* statements executed since the last commit
    committed,       \* rows of the tables users and _migrations that are committed:
                     \* a row of users is its name, a row of _migrations its version
    pending,         \* rows written and removals made since the last commit
    conn_transaction, \* the transaction open on the connection: "none", "implicit"
                     \* (opened by the sqlite3 module before an INSERT) or
                     \* "explicit" (opened by a BEGIN statement)
    pc,              \* position of each caller thread
    local,           \* local variables of the call each caller thread is in
    ret,             \* what the last call of each caller thread returned or raised
    stack,           \* what surrounds the running call of each caller thread: the
                     \* method that called it and the with block the thread is in
    migration,       \* the apply_migration or rollback_migration call each caller
                     \* thread is in or was last in: its arguments and the line
                     \* it has reached
    next_uuid,      \* number of tokens minted so far (uuid4 never repeats)
    active,          \* statements being executed on the connection right now
    enqueued,        \* history: requests put by execute and not yet dequeued, in put order
    outcome,         \* history: token -> what its statement produced, until fetched
    consumed,        \* history: tokens whose value a fetch_results call received
    query_hooks,     \* self._query_hooks: hook name -> list of callbacks
    hooks_to_call,   \* _trigger_hooks: the callbacks still to call for the statement
                     \* the loop holds, each with the hook name it was found under
    cursor_result,   \* what cursor.execute produced for that statement
    hook_errors,     \* tokens for which "Hook execution error" was logged
    auto_reconnect,  \* self.auto_reconnect
    opened,          \* history: calls of sqlite3.connect made by the worker thread
    retry_count,     \* retry_count of _process_queries: reconnections made
    attempts,        \* calls of cursor.execute made for the statement the loop holds
    removed          \* history: (hook name, callback) -> number of tokens minted
                     \* when the last unregister_hook that covers the pair
                     \* returned, until the pair is registered again

vars == <<sql_queue, results, select_events, close_event, in_transaction,
          wpc, cur, count, committed, pending, conn_transaction, pc, local, ret,
          stack, migration, next_uuid, active, enqueued, outcome, consumed,
          query_hooks, hooks_to_call, cursor_result, hook_errors, retry_count,
          attempts, removed, auto_reconnect, opened>>

workerVars == <<wpc, cur, count, committed, pending, conn_transaction, active,
                hooks_to_call, cursor_result, hook_errors, retry_count, attempts,
                auto_reconnect, opened>>
hookVars == <<query_hooks, removed>>
workerHooks == <<hooks_to_call, cursor_result, hook_errors>>
retryVars == <<retry_count, attempts>>
connVars == <<auto_reconnect, opened>>
callerVars == <<pc, local, ret, stack, migration>>
history == <<enqueued, outcome, consumed>>
registry == <<results, select_events>>

(***************************************************************************)
(* Bounds of the model.  max_queue_size and max_count are constructor      *)
(* arguments of SqliteWorker; MaxTokens caps the number of accepted        *)
(* execute calls.                                                          *)
(***************************************************************************)
MaxTokens == 2
max_queue_size == 2
max_count == 2
max_retries == 1
Threads == {"T1", "T2"}

(***************************************************************************)
(* Values.  Python's None is written per type so that values stay          *)
(* comparable: NoToken for a token, NoQuery for a statement text,          *)
(* NoValue for a returned value.                                           *)
(***************************************************************************)
SILENT_TOKEN_SUFFIX == "-silent"

Token(n, suffix) == [uuid |-> n, suffix |-> suffix]
NoToken == Token(-1, "")
UnknownToken == Token(0, "")
NoQuery == "None"

\* Statement texts and parameter tuples the callers submit.
SelectUsers == "SELECT * FROM users"
InsertUser == "INSERT INTO users (name) VALUES (?)"
SelectMissing == "SELECT * FROM non_existing_table"
EmptyText == ""
BeginTransaction == "BEGIN TRANSACTION"
Commit == "COMMIT"
Rollback == "ROLLBACK"
Alice == <<"Alice">>
Bob == <<"Bob">>
TooBig == <<"2**64">>
NoValues == <<>>

\* The calls execute(query, values, always_return_token) the callers make.
Submissions ==
    { <<SelectUsers, NoValues, FALSE>>, <<InsertUser, Alice, FALSE>>,
      <<InsertUser, TooBig, FALSE>>, <<SelectMissing, NoValues, FALSE>>,
      <<EmptyText, NoValues, TRUE>> }

Request(token, query, values) == [token |-> token, query |-> query, values |-> values]
Sentinel == Request(NoToken, NoQuery, NoValues)

\* What a call returns or raises, and what the results map stores.
NoValue == [kind |-> "None", body |-> <<>>]
Rows(rows) == [kind |-> "rows", body |-> rows]
Error(msg) == [kind |-> "error", body |-> <<msg>>]
Raised(exc) == [kind |-> "raise", body |-> <<exc>>]

TokenValue(token) == [kind |-> "token", body |-> <<token>>]

\* The end of a call: the operation, its token argument (fetch_results), and
\* what it returned or raised.
Return(op, arg, value) == [op |-> op, arg |-> arg, value |-> value]
Running == Return("", NoToken, NoValue)

\* Python dict helpers.
DictSet(d, k, v) == [x \in DOMAIN d \cup {k} |-> IF x = k THEN v ELSE d[x]]
DictPop(d, k) == [x \in DOMAIN d \ {k} |-> d[x]]
DictGet(d, k, default) == IF k \in DOMAIN d THEN d[k] ELSE default
EmptyDict == [x \in {} |-> NoValue]

NoLocal == [token |-> NoToken, query |-> NoQuery, values |-> NoValues, should_return_token |-> FALSE]

\* A thread that is in no method that calls execute and in no with block.
NoStack == [method |-> "", with |-> "none"]

\* The statements of apply_migration and the arguments it is called with.
\* up_sql is written as its pieces between semicolons.
SelectMigration == "SELECT version FROM _migrations WHERE version = ?"
InsertMigration == "INSERT INTO _migrations (version, name) VALUES (?, ?)"
CreateProducts == "CREATE TABLE IF NOT EXISTS products (id INTEGER PRIMARY KEY)"
Select1 == "SELECT 1"
InsertBob == "INSERT INTO users (name) VALUES ('Bob')"
InsertMissing == "INSERT INTO non_existing_table VALUES (1)"
DeleteMigration == "DELETE FROM _migrations WHERE version = ?"
DeleteUsers == "DELETE FROM users"
DownSqls == { <<DeleteUsers>>, <<"\n">> }
Versions == {"001", "002"}
MigrationName == "create_products"
UpSqls == { <<CreateProducts>>, <<Select1, "\n">>, <<InsertBob, InsertMissing>> }

\* True and False as returned values.
PyTrue == [kind |-> "bool", body |-> <<"True">>]
PyFalse == [kind |-> "bool", body |-> <<"False">>]

\* A thread that has called neither apply_migration nor rollback_migration.
\* method is the one of the two that was called, at the line the call has
\* reached ("none" outside a call), up_sql the up_sql or down_sql argument,
\* statements the statements still to execute, err the exception caught at
\* line 513 or 569; recorded and absent tell whether the version was in the
\* ledger, or was not, when the call began.
NoMigration ==
    [method |-> "", at |-> "none", version |-> "", name |-> "", up_sql |-> <<>>,
     statements |-> <<>>, err |-> [kind |-> "None", body |-> <<>>],
     recorded |-> FALSE, absent |-> FALSE]

(***************************************************************************)
(* Python values handed to the validating methods: a str is the sequence   *)
(* of its characters.  The characters stand for their classes: "a" a       *)
(* letter, "1" a digit, "_" the underscore, " " a blank, ";" punctuation,  *)
(* "\n" the newline; "ASC" and "desc" stand for those runs of letters.     *)
(***************************************************************************)
MaxLen == 2
Chars == {"a", "1", "_", " ", ";", "\n"}
Letters == {"a", "ASC", "desc"}
Digits == {"1"}
Whitespace == {" ", "\n"}

PyStr(chars) == [type |-> "str", chars |-> chars, int |-> 0]
PyInt(n) == [type |-> "int", chars |-> <<>>, int |-> n]
PyFloat == [type |-> "float", chars |-> <<>>, int |-> 0]
PyNone == [type |-> "NoneType", chars |-> <<>>, int |-> 0]

\* The strings of at most MaxLen characters.
Strings == UNION {[1..n -> Chars] : n \in 0..MaxLen}

\* What the callers pass where an identifier is expected.
Identifiers == {PyStr(chars) : chars \in Strings} \cup {PyNone, PyInt(1)}

\* The table and column names the callers of insert, update, delete and
\* select pass, the lists of columns (the keys of data and conditions), the
\* order_by and the limit arguments.
Names == {PyStr(<<"a">>), PyStr(<<"a", "\n">>), PyStr(<<"a", ";">>), PyStr(<<>>), PyNone}
ColumnLists == {<<>>} \cup {<<name>> : name \in Names}
OrderBys ==
    {PyNone, PyStr(<<>>), PyStr(<<" ">>), PyStr(<<"a">>), PyStr(<<"a", ";">>),
     PyStr(<<"a", " ", "ASC">>), PyStr(<<"a", " ", "desc">>), PyStr(<<"a", " ", "a">>),
     PyStr(<<"a", " ", "ASC", " ", "a">>)}
Limits == {PyNone, PyInt(0), PyInt(1), PyInt(-1), PyFloat, PyStr(<<"1">>)}

\* The calls of select: one argument varies, the others are those of
\* select("a"), and a few calls with everything given.
ValidName == PyStr(<<"a">>)
SelectCalls ==
    {<<table_name, <<>>, <<>>, PyNone, PyNone>> : table_name \in Names}
       \cup {<<ValidName, columns, <<>>, PyNone, PyNone>> : columns \in ColumnLists}
       \cup {<<ValidName, <<>>, conditions, PyNone, PyNone>> : conditions \in ColumnLists}
       \cup {<<ValidName, <<>>, <<>>, order_by, PyNone>> : order_by \in OrderBys}
       \cup {<<ValidName, <<>>, <<>>, PyNone, limit>> : limit \in Limits}
       \cup {<<ValidName, <<ValidName>>, <<ValidName>>, order_by, PyInt(1)>> : order_by \in OrderBys}

\* The text of a sequence of characters, and of a list of texts with a
\* separator between them (str.join).
RECURSIVE Text(_)
Text(chars) == IF chars = <<>> THEN "" ELSE Head(chars) \o Text(Tail(chars))

RECURSIVE Join(_, _)
Join(texts, sep) ==
    IF texts = <<>> THEN ""
    ELSE IF Len(texts) = 1 THEN texts[1]
    ELSE texts[1] \o sep \o Join(Tail(texts), sep)

\* str.split(): the runs of characters between whitespace.
RECURSIVE Split(_)
Split(chars) ==
    IF chars = <<>> THEN <<>>
    ELSE IF Head(chars) \in Whitespace THEN Split(Tail(chars))
    ELSE LET rest == Split(Tail(chars))
         IN  IF Len(chars) > 1 /\ chars[2] \notin Whitespace
             THEN <<(<<Head(chars)>> \o Head(rest))>> \o Tail(rest)
             ELSE <<(<<Head(chars)>>)>> \o rest

\* str.upper()
Upper(chars) ==
    [i \in DOMAIN chars |-> IF chars[i] = "desc" THEN "DESC"
                             ELSE IF chars[i] = "a" THEN "A" ELSE chars[i]]

(***************************************************************************)
(* Pure functions of the source.                                           *)
(***************************************************************************)
\* re.match(r'^[a-zA-Z_][a-zA-Z0-9_]*$', identifier): the first character is
\* a letter or the underscore, letters, digits and underscores follow, and
\* $ matches at the end of the string or before a newline that ends it.
ReMatch(chars) ==
    /\ chars # <<>>
    /\ chars[1] \in Letters \cup {"_"}
    /\ \E n \in 1..Len(chars) :
          /\ \A i \in 2..n : chars[i] \in Letters \cup Digits \cup {"_"}
          /\ n = Len(chars) \/ (n = Len(chars) - 1 /\ chars[Len(chars)] = "\n")

\* lines 14-29: the identifier, or the ValueError raised
_validate_identifier(identifier) ==
    IF identifier.type # "str" \/ identifier.chars = <<>> THEN Raised("ValueError")
    ELSE IF ~ReMatch(identifier.chars) THEN Raised("ValueError")
    ELSE identifier

\* The call raised.
Raises(value) == "kind" \in DOMAIN value /\ value.kind = "raise"

\* The names of a list of columns, and "col = ?" for each of them.
ColumnTexts(columns) == [i \in DOMAIN columns |-> Text(columns[i].chars)]
Placeholders(columns) == [i \in DOMAIN columns |-> "?"]
Equalities(columns) == [i \in DOMAIN columns |-> Text(columns[i].chars) \o " = ?"]

\* The values bound to a list of columns (one value for each key).
ValuesOf(columns) == [i \in DOMAIN columns |-> "v"]

\* lines 277-283: what insert raises before it builds the statement
InsertRaises(table_name, data) ==
    \/ data = <<>>
    \/ Raises(_validate_identifier(table_name))
    \/ \E i \in DOMAIN data : Raises(_validate_identifier(data[i]))

\* lines 285-287
InsertQuery(table_name, data) ==
    "INSERT INTO " \o Text(table_name.chars) \o " (" \o Join(ColumnTexts(data), ", ")
       \o ") VALUES (" \o Join(Placeholders(data), ", ") \o ")"

\* lines 305-315
UpdateRaises(table_name, data, conditions) ==
    \/ data = <<>>
    \/ conditions = <<>>
    \/ Raises(_validate_identifier(table_name))
    \/ \E i \in DOMAIN data : Raises(_validate_identifier(data[i]))
    \/ \E i \in DOMAIN conditions : Raises(_validate_identifier(conditions[i]))

\* lines 317-319
UpdateQuery(table_name, data, conditions) ==
    "UPDATE " \o Text(table_name.chars) \o " SET " \o Join(Equalities(data), ", ")
       \o " WHERE " \o Join(Equalities(conditions), " AND ")

\* lines 335-341
DeleteRaises(table_name, conditions) ==
    \/ conditions = <<>>
    \/ Raises(_validate_identifier(table_name))
    \/ \E i \in DOMAIN conditions : Raises(_validate_identifier(conditions[i]))

\* lines 343-344
DeleteQuery(table_name, conditions) ==
    "DELETE FROM " \o Text(table_name.chars) \o " WHERE "
       \o Join(Equalities(conditions), " AND ")

\* lines 386-393: what the order_by argument makes select raise
OrderByRaises(order_by) ==
    /\ order_by.type = "str"
    /\ order_by.chars # <<>>
    /\ LET order_parts == Split(order_by.chars)
       IN  \/ Len(order_parts) \notin {1, 2}
           \/ Raises(_validate_identifier(PyStr(order_parts[1])))
           \/ Len(order_parts) = 2 /\ Upper(order_parts[2]) \notin {<<"ASC">>, <<"DESC">>}

\* lines 396-398: what the limit argument makes select raise
LimitRaises(limit) ==
    limit # PyNone /\ (limit.type # "int" \/ limit.int < 0)

\* lines 366-398
SelectRaises(table_name, columns, conditions, order_by, limit) ==
    \/ Raises(_validate_identifier(table_name))
    \/ \E i \in DOMAIN columns : Raises(_validate_identifier(columns[i]))
    \/ \E i \in DOMAIN conditions : Raises(_validate_identifier(conditions[i]))
    \/ OrderByRaises(order_by)
    \/ LimitRaises(limit)

\* lines 369-399
SelectQuery(table_name, columns, conditions, order_by, limit) ==
    "SELECT " \o (IF columns # <<>> THEN Join(ColumnTexts(columns), ", ") ELSE "*")
       \o " FROM " \o Text(table_name.chars)
       \o (IF conditions # <<>>
           THEN " WHERE " \o Join(Equalities(conditions), " AND ") ELSE "")
       \o (IF order_by.type = "str" /\ order_by.chars # <<>>
           THEN " ORDER BY " \o Text(order_by.chars) ELSE "")
       \o (IF limit # PyNone THEN " LIMIT " \o ToString(limit.int) ELSE "")

\* The statements select builds from the arguments of the model.
SelectQueries ==
    {SelectQuery(a[1], a[2], a[3], a[4], a[5]) :
        a \in {b \in SelectCalls : ~SelectRaises(b[1], b[2], b[3], b[4], b[5])}}

\* query.lower().lstrip().startswith("select")
_is_select_query(query) ==
    query \in {SelectUsers, SelectMissing, SelectMigration, Select1} \cup SelectQueries

\* token.endswith(SILENT_TOKEN_SUFFIX)
EndsWithSilent(token) == token.suffix = SILENT_TOKEN_SUFFIX

\* `if query:` -- None and the empty string are falsy
Truthy(query) == query \notin {NoQuery, EmptyText}

\* cursor.execute(query, values) on a connection whose table users holds rows:
\* what it yields, or what it raises.
CursorExecute(query, values, rows) ==
    IF values = TooBig THEN Raised("OverflowError")
    ELSE IF query \in {SelectMissing, InsertMissing}
         THEN Error("no such table: non_existing_table")
    ELSE IF query = SelectUsers THEN Rows(SelectSeq(rows, LAMBDA r : r \notin Versions))
    ELSE IF query = SelectMigration THEN Rows(SelectSeq(rows, LAMBDA r : r = values[1]))
    ELSE IF query = InsertMigration /\ \E i \in DOMAIN rows : rows[i] = values[1]
         THEN Error("UNIQUE constraint failed: _migrations.version")
    ELSE IF query = Select1 THEN Rows(<<"1">>)
    ELSE Rows(<<>>)

\* A DELETE is written as the mark of the rows it removes: one ledger row,
\* or every row of users.
Removal(row) == "-" \o row
Removals == {Removal(v) : v \in Versions} \cup {Removal("users")}

\* The removal removes the row written before it.
Removes(removal, row) ==
    \/ removal = Removal(row)
    \/ removal = Removal("users") /\ row \notin Versions \cup Removals

\* The rows of the tables after the writes, in their order: every removal
\* takes away the rows before it that it removes.
RECURSIVE Applied(_)
Applied(rows) ==
    IF rows = <<>> THEN <<>>
    ELSE LET last == rows[Len(rows)]
             front == SubSeq(rows, 1, Len(rows) - 1)
         IN  IF last \in Removals
             THEN Applied(SelectSeq(front, LAMBDA r : ~Removes(last, r)))
             ELSE Append(Applied(front), last)

\* What a statement writes: the rows it adds to table users or to table
\* _migrations, or its removal.
Written(query, values) ==
    IF query = InsertUser /\ values \in {Alice, Bob} THEN values
    ELSE IF query = InsertBob THEN Bob
    ELSE IF query = InsertMigration THEN <<values[1]>>
    ELSE IF query = DeleteMigration THEN <<Removal(values[1])>>
    ELSE IF query = DeleteUsers THEN <<Removal("users")>>
    ELSE <<>>

\* cursor.execute of BEGIN TRANSACTION, COMMIT or ROLLBACK on a connection
\* whose transaction state is tx: sqlite refuses a BEGIN inside a
\* transaction and a COMMIT or ROLLBACK outside one.
ControlExecute(query, tx) ==
    IF query = BeginTransaction
    THEN IF tx = "none" THEN Rows(<<>>)
         ELSE Error("cannot start a transaction within a transaction")
    ELSE IF tx # "none" THEN Rows(<<>>)
         ELSE IF query = Commit THEN Error("cannot commit - no transaction is active")
         ELSE Error("cannot rollback - no transaction is active")

\* The transaction state of the connection after a statement that succeeded:
\* the sqlite3 module opens a transaction before an INSERT or a DELETE.
TransactionAfter(query, tx) ==
    IF query = BeginTransaction THEN "explicit"
    ELSE IF query \in {Commit, Rollback} THEN "none"
    ELSE IF query \in {InsertUser, InsertMigration, InsertBob, DeleteMigration,
                        DeleteUsers} /\ tx = "none"
         THEN "implicit"
    ELSE tx

(***************************************************************************)
(* Initial state: __init__ has run and the worker thread has been started. *)
(***************************************************************************)
\* lines 35-62: the worker as the constructor leaves it, the worker thread
\* started
Constructed(reconnect) ==
    /\ auto_reconnect = reconnect
    /\ opened = 0
    /\ sql_queue = <<>>
    /\ results = EmptyDict
    /\ select_events = [x \in {} |-> FALSE]
    /\ close_event = FALSE
    /\ in_transaction = FALSE
    /\ wpc = "connect"
    /\ cur = Sentinel
    /\ count = 0
    /\ committed = <<>>
    /\ pending = <<>>
    /\ conn_transaction = "none"
    /\ pc = [t \in Threads |-> "idle"]
    /\ local = [t \in Threads |-> NoLocal]
    /\ ret = [t \in Threads |-> Running]
    /\ stack = [t \in Threads |-> NoStack]
    /\ migration = [t \in Threads |-> NoMigration]
    /\ next_uuid = 0
    /\ active = 0
    /\ enqueued = <<>>
    /\ outcome = EmptyDict
    /\ consumed = {}
    /\ query_hooks = [x \in {} |-> <<>>]
    /\ hooks_to_call = <<>>
    /\ cursor_result = NoValue
    /\ hook_errors = {}
    /\ retry_count = 0
    /\ attempts = 0
    /\ removed = [x \in {} |-> 0]

\* auto_reconnect=True is the default of the constructor
Init == Constructed(TRUE)

\* A worker constructed with either value of auto_reconnect.
RetryInit == \E reconnect \in BOOLEAN : Constructed(reconnect)

\* A caller thread ends its call.
Leave(t, value) ==
    /\ pc' = [pc EXCEPT ![t] = "idle"]
    /\ local' = [local EXCEPT ![t] = NoLocal]
    /\ ret' = [ret EXCEPT ![t] = value]
    /\ UNCHANGED <<stack, migration>>

\* A caller thread moves on inside its call.
Goto(t, label, locals) ==
    /\ pc' = [pc EXCEPT ![t] = label]
    /\ local' = [local EXCEPT ![t] = locals]
    /\ ret' = [ret EXCEPT ![t] = Running]
    /\ UNCHANGED <<stack, migration>>

(***************************************************************************)
(* execute(query, values, always_return_token)                             *)
(***************************************************************************)
\* execute without the closed check of line 196
execute_unchecked(t, query, values, always_return_token) ==
    /\ pc[t] = "idle"
    /\ next_uuid < MaxTokens
    /\ LET should_return_token == always_return_token \/ _is_select_query(query)
           token == Token(next_uuid + 1,
                          IF should_return_token THEN "" ELSE SILENT_TOKEN_SUFFIX)
       IN  Goto(t, "put", [token |-> token, query |-> query, values |-> values,
                           should_return_token |-> should_return_token])
    /\ next_uuid' = next_uuid + 1
    /\ UNCHANGED <<sql_queue, registry, close_event, in_transaction, workerVars, hookVars, history>>

\* lines 196-206: the closed check and the minting of the token
execute(t, query, values, always_return_token) ==
    /\ pc[t] = "idle"
    /\ IF close_event
       THEN /\ Leave(t, Return("execute", NoToken, Raised("RuntimeError")))
            /\ UNCHANGED next_uuid
       ELSE /\ LET should_return_token == always_return_token \/ _is_select_query(query)
                   token == Token(next_uuid + 1,
                                  IF should_return_token THEN "" ELSE SILENT_TOKEN_SUFFIX)
               IN  Goto(t, "put", [token |-> token, query |-> query, values |-> values,
                                   should_return_token |-> should_return_token])
            /\ next_uuid' = next_uuid + 1
    /\ UNCHANGED <<sql_queue, registry, close_event, in_transaction, workerVars, hookVars, history>>

\* line 208: self._sql_queue.put(..., timeout=5) finds room
execute_put(t) ==
    /\ pc[t] = "put"
    /\ Len(sql_queue) < max_queue_size
    /\ LET request == Request(local[t].token, local[t].query, local[t].values)
       IN  /\ sql_queue' = Append(sql_queue, request)
           /\ enqueued' = Append(enqueued, request)
    /\ Goto(t, "notify_begin", local[t])
    /\ UNCHANGED <<registry, close_event, in_transaction, workerVars, hookVars,
                   next_uuid, outcome, consumed>>

\* the event of the token is registered although put raised
execute_put_full_registered(t) ==
    /\ pc[t] = "put"
    /\ Len(sql_queue) >= max_queue_size
    /\ select_events' = DictSet(select_events, local[t].token, FALSE)
    /\ Leave(t, Return("execute", NoToken, Raised("queue.Full")))
    /\ UNCHANGED <<sql_queue, results, close_event, in_transaction, workerVars, hookVars,
                   next_uuid, history>>

\* line 208: the queue stayed full for the whole timeout, put raises queue.Full
execute_put_full(t) ==
    /\ pc[t] = "put"
    /\ Len(sql_queue) >= max_queue_size
    /\ Leave(t, Return("execute", NoToken, Raised("queue.Full")))
    /\ UNCHANGED <<sql_queue, registry, close_event, in_transaction, workerVars, hookVars,
                   next_uuid, history>>

\* lines 178-179: self._select_events.setdefault(token, threading.Event())
_notify_query_begin(events, token) ==
    IF token \in DOMAIN events THEN events ELSE DictSet(events, token, FALSE)

\* lines 209-213: register the event, return the token or None
execute_return(t) ==
    /\ pc[t] = "notify_begin"
    /\ select_events' = _notify_query_begin(select_events, local[t].token)
    /\ IF local[t].should_return_token
       THEN Leave(t, Return("execute", NoToken, TokenValue(local[t].token)))
       ELSE Leave(t, Return("execute", NoToken, NoValue))
    /\ UNCHANGED <<sql_queue, results, close_event, in_transaction, workerVars, hookVars,
                   next_uuid, history>>

(***************************************************************************)
(* fetch_results(token)                                                    *)
(***************************************************************************)
\* The tokens execute has returned to a caller.
ReturnedTokens ==
    {k \in DOMAIN select_events : ~EndsWithSilent(k)}

\* fetch_results creating the event it does not find (setdefault for get)
fetch_results_setdefault(t, token) ==
    /\ pc[t] = "idle"
    /\ IF token = NoToken
       THEN /\ Leave(t, Return("fetch_results", token, NoValue))
            /\ UNCHANGED select_events
       ELSE /\ Goto(t, "wait", [NoLocal EXCEPT !.token = token])
            /\ select_events' = _notify_query_begin(select_events, token)
    /\ UNCHANGED <<sql_queue, results, close_event, in_transaction, workerVars, hookVars,
                   next_uuid, history>>

\* lines 220-225: None and tokens without an event return None at once
fetch_results(t, token) ==
    /\ pc[t] = "idle"
    /\ IF token = NoToken \/ token \notin DOMAIN select_events
       THEN Leave(t, Return("fetch_results", token, NoValue))
       ELSE Goto(t, "wait", [NoLocal EXCEPT !.token = token])
    /\ UNCHANGED <<sql_queue, registry, close_event, in_transaction, workerVars, hookVars,
                   next_uuid, history>>

\* the value is read and left in the map (get for pop)
Pop_keep(res, token) == res

\* self._results.pop(token, None)
Pop(res, token) == DictPop(res, token)

\* lines 226-228: event.wait() returns once the event is set, then
\* with self._lock: return self._results.pop(token, None)
fetch_wait(t) ==
    /\ pc[t] = "wait"
    /\ select_events[local[t].token]
    /\ Leave(t, Return("fetch_results", local[t].token,
                       DictGet(results, local[t].token, NoValue)))
    /\ results' = Pop(results, local[t].token)
    /\ IF local[t].token \in DOMAIN results
       THEN /\ consumed' = consumed \cup {local[t].token}
            /\ outcome' = DictPop(outcome, local[t].token)
       ELSE UNCHANGED <<consumed, outcome>>
    /\ UNCHANGED <<sql_queue, select_events, close_event, in_transaction, workerVars, hookVars,
                   next_uuid, enqueued>>

(***************************************************************************)
(* close()                                                                 *)
(***************************************************************************)
\* line 191: self._close_event.set()
close(t) ==
    /\ pc[t] = "idle"
    /\ close_event' = TRUE
    /\ Goto(t, "close_put", NoLocal)
    /\ UNCHANGED <<sql_queue, registry, in_transaction, workerVars, hookVars,
                   next_uuid, history>>

\* line 192: the sentinel is put on the queue
close_put(t) ==
    /\ pc[t] = "close_put"
    /\ Len(sql_queue) < max_queue_size
    /\ sql_queue' = Append(sql_queue, Sentinel)
    /\ Goto(t, "join", NoLocal)
    /\ UNCHANGED <<registry, close_event, in_transaction, workerVars, hookVars,
                   next_uuid, history>>

\* line 192: the queue stayed full for the whole timeout, put raises queue.Full
close_put_full(t) ==
    /\ pc[t] = "close_put"
    /\ Len(sql_queue) >= max_queue_size
    /\ Leave(t, Return("close", NoToken, Raised("queue.Full")))
    /\ UNCHANGED <<sql_queue, registry, close_event, in_transaction, workerVars, hookVars,
                   next_uuid, history>>

\* line 193: self._thread.join() returns once the worker thread has ended
close_join(t) ==
    /\ pc[t] = "join"
    /\ wpc \in {"stopped", "dead"}
    /\ Leave(t, Return("close", NoToken, NoValue))
    /\ UNCHANGED <<sql_queue, registry, close_event, in_transaction, workerVars, hookVars,
                   next_uuid, history>>

(***************************************************************************)
(* begin_transaction(), commit_transaction(), rollback_transaction() and   *)
(* the with block of TransactionContext.  self._transaction_lock is held   *)
(* by the thread that is inside one of the three methods.                  *)
(***************************************************************************)
Methods == {"begin_transaction", "commit_transaction", "rollback_transaction"}

\* The statement each method hands to execute (lines 242, 249, 257).
StatementOf(method) ==
    CASE method = "begin_transaction" -> BeginTransaction
      [] method = "commit_transaction" -> Commit
      [] method = "rollback_transaction" -> Rollback

\* self._transaction_lock can be acquired
LockFree == \A u \in Threads : stack[u].method = ""

\* Where the thread's with statement stands once the method called by
\* __enter__ or __exit__ has ended: __enter__ raising skips the body, __exit__
\* after an exception of the body returns False and lets that exception go
\* on, __exit__ after a normal end returns True; "failed" when the method
\* called by __enter__ or __exit__ raised.
WithAfter(w, raised) ==
    CASE w = "enter" -> IF raised THEN "failed" ELSE "body"
      [] w = "exit_raise" -> IF raised THEN "failed" ELSE "raised"
      [] w = "exit_normal" -> IF raised THEN "failed" ELSE "exited"
      [] OTHER -> "manual"

\* The method raises RuntimeError under the lock, before execute is called.
Reject(t, method) ==
    /\ ret' = [ret EXCEPT ![t] = Return(method, NoToken, Raised("RuntimeError"))]
    /\ stack' = [stack EXCEPT ![t] = [method |-> "", with |-> WithAfter(stack[t].with, TRUE)]]
    /\ UNCHANGED in_transaction

\* The method goes on to its call of execute, holding the lock.
Enter(t, method) ==
    /\ ret' = [ret EXCEPT ![t] = Running]
    /\ stack' = [stack EXCEPT ![t].method = method]

\* begin_transaction without the check of line 239
begin_transaction_unchecked(t) ==
    /\ pc[t] = "idle"
    /\ stack[t].method = ""
    /\ stack[t].with \in {"none", "manual", "enter"}
    /\ LockFree
    /\ in_transaction' = TRUE
    /\ Enter(t, "begin_transaction")
    /\ UNCHANGED <<sql_queue, registry, close_event, workerVars, hookVars, pc, local,
                   migration, next_uuid, history>>

\* lines 238-241: under the lock, raise if a transaction is in progress,
\* else set the flag
begin_transaction(t) ==
    /\ pc[t] = "idle"
    /\ stack[t].method = ""
    /\ stack[t].with \in {"none", "manual", "enter"}
    /\ LockFree
    /\ IF in_transaction
       THEN Reject(t, "begin_transaction")
       ELSE /\ in_transaction' = TRUE
            /\ Enter(t, "begin_transaction")
    /\ UNCHANGED <<sql_queue, registry, close_event, workerVars, hookVars, pc, local,
                   migration, next_uuid, history>>

\* lines 246-248: under the lock, raise if no transaction is in progress
commit_transaction(t) ==
    /\ pc[t] = "idle"
    /\ stack[t].method = ""
    /\ stack[t].with \in {"none", "manual", "exit_normal"}
    /\ LockFree
    /\ IF ~in_transaction
       THEN Reject(t, "commit_transaction")
       ELSE /\ Enter(t, "commit_transaction")
            /\ UNCHANGED in_transaction
    /\ UNCHANGED <<sql_queue, registry, close_event, workerVars, hookVars, pc, local,
                   migration, next_uuid, history>>

\* lines 254-256: under the lock, raise if no transaction is in progress
rollback_transaction(t) ==
    /\ pc[t] = "idle"
    /\ stack[t].method = ""
    /\ stack[t].with \in {"none", "manual", "exit_raise"}
    /\ LockFree
    /\ IF ~in_transaction
       THEN Reject(t, "rollback_transaction")
       ELSE /\ Enter(t, "rollback_transaction")
            /\ UNCHANGED in_transaction
    /\ UNCHANGED <<sql_queue, registry, close_event, workerVars, hookVars, pc, local,
                   migration, next_uuid, history>>

\* lines 242, 249, 257: the method calls self.execute with its statement
transaction_execute(t) ==
    /\ stack[t].method \in Methods
    /\ ret[t] = Running
    /\ execute(t, StatementOf(stack[t].method), NoValues, FALSE)

\* lines 242, 250, 258: execute has returned or raised.  An exception leaves
\* the method at once; otherwise commit and rollback clear the flag.  The
\* lock is released.
transaction_return(t) ==
    /\ stack[t].method \in Methods
    /\ pc[t] = "idle"
    /\ ret[t].op = "execute"
    /\ LET raised == ret[t].value.kind = "raise"
       IN  /\ in_transaction' =
                 IF raised \/ stack[t].method = "begin_transaction"
                 THEN in_transaction ELSE FALSE
           /\ ret' = [ret EXCEPT ![t] =
                         Return(stack[t].method, NoToken,
                                IF raised THEN ret[t].value ELSE NoValue)]
           /\ stack' = [stack EXCEPT ![t] =
                           [method |-> "", with |-> WithAfter(stack[t].with, raised)]]
    /\ UNCHANGED <<sql_queue, registry, close_event, workerVars, hookVars, pc, local,
                   migration, next_uuid, history>>

\* lines 260-262, 594-596: the thread reaches `with worker.transaction():`
transaction(t) ==
    /\ pc[t] = "idle"
    /\ stack[t] = NoStack
    /\ stack' = [stack EXCEPT ![t].with = "enter"]
    /\ UNCHANGED <<sql_queue, registry, close_event, in_transaction, workerVars, hookVars,
                   pc, local, ret, migration, next_uuid, history>>

\* lines 598-604: the body of the with block ends, by an exception or not
__exit__(t, exc_type) ==
    /\ pc[t] = "idle"
    /\ stack[t] = [method |-> "", with |-> "body"]
    /\ stack' = [stack EXCEPT ![t].with = IF exc_type THEN "exit_raise" ELSE "exit_normal"]
    /\ UNCHANGED <<sql_queue, registry, close_event, in_transaction, workerVars, hookVars,
                   pc, local, ret, migration, next_uuid, history>>

(***************************************************************************)
(* insert, update, delete, select: validate the arguments, build the       *)
(* statement and hand it to execute.                                       *)
(***************************************************************************)
\* The method raises ValueError.
RaiseValueError(t, method) ==
    /\ Leave(t, Return(method, NoToken, Raised("ValueError")))
    /\ UNCHANGED <<sql_queue, registry, close_event, in_transaction, workerVars, hookVars,
                   next_uuid, history>>

\* lines 14-29 called on their own
validate_identifier(t, identifier) ==
    /\ pc[t] = "idle"
    /\ Leave(t, Return("_validate_identifier", identifier, _validate_identifier(identifier)))
    /\ UNCHANGED <<sql_queue, registry, close_event, in_transaction, workerVars, hookVars,
                   next_uuid, history>>

\* lines 266-290
insert(t, table_name, data) ==
    /\ pc[t] = "idle"
    /\ IF InsertRaises(table_name, data)
       THEN RaiseValueError(t, "insert")
       ELSE execute(t, InsertQuery(table_name, data), ValuesOf(data), TRUE)

\* lines 292-322
update(t, table_name, data, conditions) ==
    /\ pc[t] = "idle"
    /\ IF UpdateRaises(table_name, data, conditions)
       THEN RaiseValueError(t, "update")
       ELSE execute(t, UpdateQuery(table_name, data, conditions),
                    ValuesOf(data) \o ValuesOf(conditions), TRUE)

\* lines 324-347
delete(t, table_name, conditions) ==
    /\ pc[t] = "idle"
    /\ IF DeleteRaises(table_name, conditions)
       THEN RaiseValueError(t, "delete")
       ELSE execute(t, DeleteQuery(table_name, conditions), ValuesOf(conditions), TRUE)

\* lines 349-401
select(t, table_name, columns, conditions, order_by, limit) ==
    /\ pc[t] = "idle"
    /\ IF SelectRaises(table_name, columns, conditions, order_by, limit)
       THEN RaiseValueError(t, "select")
       ELSE execute(t, SelectQuery(table_name, columns, conditions, order_by, limit),
                    ValuesOf(conditions), FALSE)

(***************************************************************************)
(* apply_migration(version, name, up_sql) and rollback_migration(version,   *)
(* down_sql).  The two methods have the same lines but for the test of the *)
(* SELECT on the ledger and for the ledger statement (INSERT, DELETE); the *)
(* line numbers below are those of apply_migration, rollback_migration     *)
(* has them at lines 533-572.  The methods call execute, fetch_results,    *)
(* begin_transaction, commit_transaction and rollback_transaction; each    *)
(* call is made by the action of the called method, and the actions below  *)
(* are the lines between two calls.  ret[t] is Running when the next call  *)
(* is still to be made and holds the end of the call once it has been made.*)
(***************************************************************************)
\* s.strip() of a piece of up_sql: the pieces of the model are blank or carry
\* no surrounding blanks
Strip(text) == IF text \in {"", " ", "\n"} THEN "" ELSE text

\* line 493: [s.strip() for s in up_sql.split(';') if s.strip()]
MigrationStatements(up_sql) ==
    LET kept == SelectSeq(up_sql, LAMBDA s : Strip(s) # "")
    IN  [i \in 1..Len(kept) |-> Strip(kept[i])]

\* The thread's last call was apply_migration of this version and returned True.
JustApplied(t, version) ==
    /\ migration[t].version = version
    /\ ret[t].op = "apply_migration"
    /\ ret[t].value = PyTrue

\* The thread's last call was rollback_migration of this version and
\* returned True.
JustRolledBack(t, version) ==
    /\ migration[t].version = version
    /\ ret[t].op = "rollback_migration"
    /\ ret[t].value = PyTrue

\* The requests the loop has still to execute, oldest first.
Ahead == (IF wpc = "executing" THEN <<cur>> ELSE <<>>) \o sql_queue

\* The statement with this version as its first parameter is still to execute.
IsAhead(query, version) ==
    \E i \in DOMAIN Ahead : Ahead[i].query = query /\ Ahead[i].values[1] = version

\* The version is in the ledger for the SELECT of a call that begins now: the
\* previous call applied it, or its row is committed and no DELETE of it has
\* been executed or is still to execute.
Recorded(t, version) ==
    \/ JustApplied(t, version)
    \/ /\ \E i \in DOMAIN committed : committed[i] = version
       /\ \A i \in DOMAIN pending : pending[i] # Removal(version)
       /\ ~IsAhead(DeleteMigration, version)

\* The version is not in the ledger for the SELECT of a call that begins now:
\* the previous call rolled it back, or no row of it is committed or written
\* and no INSERT of it is still to execute.
Absent(t, version) ==
    \/ JustRolledBack(t, version)
    \/ /\ ~JustApplied(t, version)
       /\ \A i \in DOMAIN committed : committed[i] # version
       /\ \A i \in DOMAIN pending : pending[i] # version
       /\ ~IsAhead(InsertMigration, version)

\* The method goes on to the line at.
MigrationGoto(t, at) ==
    /\ migration' = [migration EXCEPT ![t].at = at]
    /\ ret' = [ret EXCEPT ![t] = Running]

\* The method returns or raises.
MigrationLeave(t, value) ==
    /\ migration' = [migration EXCEPT ![t].at = "none"]
    /\ ret' = [ret EXCEPT ![t] = Return(migration[t].method, NoToken, value)]

\* One of the two methods is called.
MigrationCall(t, method, version, name, sql) ==
    /\ pc[t] = "idle"
    /\ stack[t].method = ""
    /\ stack[t].with \in {"none", "manual"}
    /\ migration[t].at = "none"
    /\ migration' = [migration EXCEPT ![t] =
                        [method |-> method, at |-> "check", version |-> version,
                         name |-> name, up_sql |-> sql,
                         statements |-> MigrationStatements(sql),
                         err |-> NoValue,
                         recorded |-> Recorded(t, version),
                         absent |-> Absent(t, version)]]
    /\ ret' = [ret EXCEPT ![t] = Running]
    /\ UNCHANGED <<sql_queue, registry, close_event, in_transaction, workerVars, hookVars,
                   pc, local, stack, next_uuid, history>>

\* apply_migration is called
apply_migration(t, version, name, up_sql) ==
    MigrationCall(t, "apply_migration", version, name, up_sql)

\* rollback_migration is called
rollback_migration(t, version, down_sql) ==
    MigrationCall(t, "rollback_migration", version, "", down_sql)

\* lines 502-505, 558-561: the ledger statement of the method
LedgerStatement(method) ==
    IF method = "apply_migration" THEN InsertMigration ELSE DeleteMigration

\* lines 476-479, 496, 502-505: the calls of self.execute
migration_execute(t) ==
    /\ migration[t].at \in {"check", "statements", "record"}
    /\ ret[t] = Running
    /\ CASE migration[t].at = "check" ->
                execute(t, SelectMigration, <<migration[t].version>>, FALSE)
         [] migration[t].at = "statements" ->
                execute(t, Head(migration[t].statements), NoValues, FALSE)
         [] migration[t].at = "record" ->
                execute(t, LedgerStatement(migration[t].method),
                        IF migration[t].method = "apply_migration"
                        THEN <<migration[t].version, migration[t].name>>
                        ELSE <<migration[t].version>>, FALSE)

\* line 476: the execute of the check raised; nothing catches it
migration_raise(t) ==
    /\ migration[t].at = "check"
    /\ pc[t] = "idle"
    /\ ret[t].op = "execute"
    /\ ret[t].value.kind = "raise"
    /\ MigrationLeave(t, ret[t].value)
    /\ UNCHANGED <<sql_queue, registry, close_event, in_transaction, workerVars, hookVars,
                   pc, local, stack, next_uuid, history>>

\* lines 480, 498-499, 506-507: execute returned a token, fetch_results waits
\* for its statement
migration_fetch(t) ==
    /\ migration[t].at \in {"check", "statements", "record"}
    /\ ret[t].op = "execute"
    /\ ret[t].value.kind = "token"
    /\ fetch_results(t, ret[t].value.body[1])

\* the test of line 482 never finding the version
AlreadyApplied_never(fetched) == FALSE

\* line 482: results and len(results) > 0
AlreadyApplied(fetched) == fetched.kind = "rows" /\ Len(fetched.body) > 0

\* line 539: not results or len(results) == 0
NotFound(fetched) == ~(fetched.kind = "rows" /\ Len(fetched.body) > 0)

\* lines 482-484: the version is in the ledger, apply_migration returns
\* False; lines 539-541: the version is not in the ledger, rollback_migration
\* returns False; otherwise go on to the try block.  A stored sqlite3.Error
\* is truthy and has no len().
migration_check(t) ==
    /\ migration[t].at = "check"
    /\ pc[t] = "idle"
    /\ ret[t].op = "fetch_results"
    /\ IF ret[t].value.kind = "error"
       THEN MigrationLeave(t, Raised("TypeError"))
       ELSE IF migration[t].method = "apply_migration"
            THEN IF AlreadyApplied(ret[t].value)
                 THEN MigrationLeave(t, PyFalse)
                 ELSE MigrationGoto(t, "begin")
            ELSE IF NotFound(ret[t].value)
                 THEN MigrationLeave(t, PyFalse)
                 ELSE MigrationGoto(t, "begin")
    /\ UNCHANGED <<sql_queue, registry, close_event, in_transaction, workerVars, hookVars,
                   pc, local, stack, next_uuid, history>>

\* line 488: self.begin_transaction()
migration_begin(t) ==
    /\ migration[t].at = "begin"
    /\ ret[t] = Running
    /\ begin_transaction(t)

\* lines 493-495: begin_transaction returned, the statements are split
migration_begun(t) ==
    /\ migration[t].at = "begin"
    /\ pc[t] = "idle"
    /\ ret[t].op = "begin_transaction"
    /\ ret[t].value.kind # "raise"
    /\ MigrationGoto(t, IF migration[t].statements = <<>> THEN "record" ELSE "statements")
    /\ UNCHANGED <<sql_queue, registry, close_event, in_transaction, workerVars, hookVars,
                   pc, local, stack, next_uuid, history>>

\* lines 495-507: a statement or the ledger INSERT has been handed over
\* (execute returned None) or waited for (fetch_results returned); the loop
\* goes to the next statement, then to the ledger INSERT, then to the commit
migration_next(t) ==
    /\ migration[t].at \in {"statements", "record"}
    /\ pc[t] = "idle"
    /\ \/ ret[t].op = "execute" /\ ret[t].value.kind = "None"
       \/ ret[t].op = "fetch_results"
    /\ migration' =
          [migration EXCEPT ![t] =
              IF migration[t].at = "record"
              THEN [@ EXCEPT !.at = "commit"]
              ELSE [@ EXCEPT !.statements = Tail(@),
                             !.at = IF Len(migration[t].statements) > 1
                                    THEN "statements" ELSE "record"]]
    /\ ret' = [ret EXCEPT ![t] = Running]
    /\ UNCHANGED <<sql_queue, registry, close_event, in_transaction, workerVars, hookVars,
                   pc, local, stack, next_uuid, history>>

\* line 509: self.commit_transaction()
migration_commit(t) ==
    /\ migration[t].at = "commit"
    /\ ret[t] = Running
    /\ commit_transaction(t)

\* lines 509-511: commit_transaction returned, return True
migration_return(t) ==
    /\ migration[t].at = "commit"
    /\ pc[t] = "idle"
    /\ ret[t].op = "commit_transaction"
    /\ ret[t].value.kind # "raise"
    /\ MigrationLeave(t, PyTrue)
    /\ UNCHANGED <<sql_queue, registry, close_event, in_transaction, workerVars, hookVars,
                   pc, local, stack, next_uuid, history>>

\* line 513: a call made inside the try block raised
migration_except(t) ==
    /\ migration[t].at \in {"begin", "statements", "record", "commit"}
    /\ pc[t] = "idle"
    /\ stack[t].method = ""
    /\ ret[t].op # ""
    /\ ret[t].value.kind = "raise"
    /\ migration' = [migration EXCEPT ![t].at = "except", ![t].err = ret[t].value]
    /\ ret' = [ret EXCEPT ![t] = Running]
    /\ UNCHANGED <<sql_queue, registry, close_event, in_transaction, workerVars, hookVars,
                   pc, local, stack, next_uuid, history>>

\* line 515: self.rollback_transaction()
migration_rollback(t) ==
    /\ migration[t].at = "except"
    /\ ret[t] = Running
    /\ rollback_transaction(t)

\* lines 515-516: rollback_transaction raised, or returned and the caught
\* exception is raised again
migration_reraise(t) ==
    /\ migration[t].at = "except"
    /\ pc[t] = "idle"
    /\ ret[t].op = "rollback_transaction"
    /\ MigrationLeave(t, IF ret[t].value.kind = "raise" THEN ret[t].value
                         ELSE migration[t].err)
    /\ UNCHANGED <<sql_queue, registry, close_event, in_transaction, workerVars, hookVars,
                   pc, local, stack, next_uuid, history>>

(***************************************************************************)
(* The worker thread: _run, _process_queries, _execute_query               *)
(***************************************************************************)
\* a reconnection executes the request the loop holds once more
connect_reexecute ==
    /\ wpc = "connect"
    /\ opened' = opened + 1
    /\ count' = 0
    /\ wpc' = IF opened > 0 /\ Truthy(cur.query) THEN "executing" ELSE "while"
    /\ UNCHANGED <<sql_queue, registry, close_event, in_transaction, cur,
                   committed, pending, conn_transaction, active, callerVars,
                   auto_reconnect, retryVars, hookVars, workerHooks, next_uuid,
                   history>>

\* lines 78-88: open the connection, run execute_init, create _migrations
connect ==
    /\ wpc = "connect"
    /\ opened' = opened + 1
    /\ count' = 0
    /\ wpc' = "while"
    /\ UNCHANGED <<sql_queue, registry, close_event, in_transaction, cur,
                   committed, pending, conn_transaction, active, callerVars,
                   auto_reconnect, retryVars, hookVars, workerHooks, next_uuid,
                   history>>

\* the loop that does not test self._close_event
while_test_forever ==
    /\ wpc = "while"
    /\ wpc' = "get"
    /\ UNCHANGED <<sql_queue, registry, close_event, in_transaction, cur, count,
                   committed, pending, conn_transaction, active, callerVars, connVars, retryVars,
                   hookVars, workerHooks, next_uuid, history>>

\* line 89: while not self._close_event.is_set() or not self._sql_queue.empty();
\* lines 104-106 when the condition is false: conn.close() and the loop ends.
\* Closing the connection discards what was not committed.
while_test ==
    /\ wpc = "while"
    /\ IF ~close_event \/ sql_queue # <<>>
       THEN /\ wpc' = "get"
            /\ UNCHANGED <<pending, conn_transaction>>
       ELSE /\ wpc' = "stopped"
            /\ pending' = <<>>
            /\ conn_transaction' = "none"
    /\ UNCHANGED <<sql_queue, registry, close_event, in_transaction, cur, count,
                   committed, active, callerVars, connVars, retryVars, hookVars, workerHooks,
                   next_uuid, history>>

\* a last in, first out queue
GetIndex_lifo(q) == Len(q)

\* queue.Queue is first in, first out: get() takes the oldest request
GetIndex(q) == 1

\* The queue without its i-th request.
Without(q, i) == [j \in 1..(Len(q) - 1) |-> IF j < i THEN q[j] ELSE q[j + 1]]

\* the loop takes the next request without waiting for the statement in
\* execution to finish
queue_get_overlapping ==
    /\ wpc \in {"get", "executing"}
    /\ sql_queue # <<>>
    /\ LET request == sql_queue[GetIndex(sql_queue)]
       IN  /\ cur' = request
           /\ attempts' = 0
           /\ sql_queue' = Without(sql_queue, GetIndex(sql_queue))
           /\ enqueued' = SelectSeq(enqueued, LAMBDA r : r # request)
           /\ IF Truthy(request.query)
              THEN /\ count' = count + 1
                   /\ active' = active + 1
                   /\ wpc' = "executing"
              ELSE /\ wpc' = "commit"
                   /\ UNCHANGED <<count, active>>
    /\ UNCHANGED <<registry, close_event, in_transaction, committed, pending,
                   conn_transaction, callerVars, connVars, retry_count, hookVars, workerHooks,
                   next_uuid, outcome, consumed>>

\* lines 91, 94-96, 162: a request is dequeued; a truthy query is counted and
\* cursor.execute(query, values) starts on the connection; any other request
\* goes straight to line 99
queue_get ==
    /\ wpc = "get"
    /\ sql_queue # <<>>
    /\ LET request == sql_queue[GetIndex(sql_queue)]
       IN  /\ cur' = request
           /\ attempts' = 0
           /\ sql_queue' = Without(sql_queue, GetIndex(sql_queue))
           /\ enqueued' = SelectSeq(enqueued, LAMBDA r : r # request)
           /\ IF Truthy(request.query)
              THEN /\ count' = count + 1
                   /\ active' = active + 1
                   /\ wpc' = "executing"
              ELSE /\ wpc' = "commit"
                   /\ UNCHANGED <<count, active>>
    /\ UNCHANGED <<registry, close_event, in_transaction, committed, pending,
                   conn_transaction, callerVars, connVars, retry_count, hookVars, workerHooks,
                   next_uuid, outcome, consumed>>

\* lines 92-93: get timed out on an empty queue, continue
queue_get_empty ==
    /\ wpc = "get"
    /\ sql_queue = <<>>
    /\ wpc' = "while"
    /\ UNCHANGED <<sql_queue, registry, close_event, in_transaction, cur, count,
                   committed, pending, conn_transaction, active, callerVars, connVars, retryVars,
                   hookVars, workerHooks, next_uuid,
                   history>>

\* the rows are stored under the oldest registered token instead of the
\* token of the request
StoreRows_stale(res, token, value) ==
    LET known == {k \in DOMAIN select_events : ~EndsWithSilent(k)}
        oldest == CHOOSE k \in known : \A j \in known : k.uuid <= j.uuid
    IN  IF EndsWithSilent(token) THEN res
        ELSE IF known = {} THEN DictSet(res, token, value)
        ELSE DictSet(res, oldest, value)

\* lines 167-169: the rows are stored unless the token is silent
StoreRows(res, token, value) ==
    IF ~EndsWithSilent(token) THEN DictSet(res, token, value) ELSE res

\* lines 186-188: self._results[token] = err
_handle_query_error(res, token, err) == DictSet(res, token, err)

\* lines 181-184: the event of the token, if there is one, is set
_notify_query_done(events, token) ==
    IF token \in DOMAIN events THEN [events EXCEPT ![token] = TRUE] ELSE events

(***************************************************************************)
(* Hooks: register_hook, unregister_hook, _trigger_hooks                   *)
(***************************************************************************)
\* The hook names and the callbacks the callers use.  failing raises an
\* Exception each time it is called, callback returns.
HookNames == {"on_query", "on_insert"}
Callbacks == {"callback", "failing"}
NoCallback == "None"

\* The callback raises an Exception when it is called.
HookRaises(callback) == callback = "failing"

\* The pairs of a hook name and a callback that a call of unregister_hook
\* covers.
Covered(hook_name, callback) ==
    IF callback = NoCallback THEN {<<hook_name, cb>> : cb \in Callbacks}
    ELSE {<<hook_name, callback>>}

\* lines 413-416: the callback is appended to the list of the hook name
register_hook(t, hook_name, callback) ==
    /\ pc[t] = "idle"
    /\ query_hooks' = DictSet(query_hooks, hook_name,
                              Append(DictGet(query_hooks, hook_name, <<>>), callback))
    /\ removed' = DictPop(removed, <<hook_name, callback>>)
    /\ Leave(t, Return("register_hook", NoToken, NoValue))
    /\ UNCHANGED <<sql_queue, registry, close_event, in_transaction, workerVars,
                   next_uuid, history>>

\* the first occurrence of the callback is removed (list.remove)
Remaining_first(hooks, callback) ==
    IF \E i \in DOMAIN hooks : hooks[i] = callback
    THEN LET first == CHOOSE i \in DOMAIN hooks :
                         hooks[i] = callback /\ \A j \in 1..(i - 1) : hooks[j] # callback
         IN  [j \in 1..(Len(hooks) - 1) |-> IF j < first THEN hooks[j] ELSE hooks[j + 1]]
    ELSE hooks

\* lines 431-433: [cb for cb in self._query_hooks[hook_name] if cb != callback]
Remaining(hooks, callback) == SelectSeq(hooks, LAMBDA cb : cb # callback)

\* lines 426-433: without a callback the hook name is deleted, with one the
\* list is filtered; a hook name that is not in the map is left alone
unregister_hook(t, hook_name, callback) ==
    /\ pc[t] = "idle"
    /\ query_hooks' =
          IF hook_name \notin DOMAIN query_hooks THEN query_hooks
          ELSE IF callback = NoCallback THEN DictPop(query_hooks, hook_name)
          ELSE [query_hooks EXCEPT ![hook_name] = Remaining(@, callback)]
    /\ removed' = [x \in DOMAIN removed \cup Covered(hook_name, callback) |->
                      IF x \in Covered(hook_name, callback) THEN next_uuid ELSE removed[x]]
    /\ Leave(t, Return("unregister_hook", NoToken, NoValue))
    /\ UNCHANGED <<sql_queue, registry, close_event, in_transaction, workerVars,
                   next_uuid, history>>

\* lines 441-449: the hook name of the leading keyword of the query, for the
\* statements of the callers that register hooks
KeywordHook(query) ==
    IF query \in {InsertUser, InsertBob, InsertMissing, InsertMigration} THEN "on_insert"
    ELSE IF query \in {DeleteMigration, DeleteUsers} THEN "on_delete"
    ELSE IF _is_select_query(query) THEN "on_select"
    ELSE ""

\* The callbacks registered under a hook name, each with the hook name.
HooksOf(hook_name) ==
    LET hooks == DictGet(query_hooks, hook_name, <<>>)
    IN  [i \in DOMAIN hooks |-> [event |-> hook_name, callback |-> hooks[i]]]

\* lines 437-449: hooks_to_call, taken under the lock
HooksToCall(query) == HooksOf("on_query") \o HooksOf(KeywordHook(query))

\* the exception of a callback leaves _trigger_hooks
AfterHook_propagates(callback) == IF HookRaises(callback) THEN "dead" ELSE "hooks"

\* lines 452-456: an Exception of the callback is caught and logged, the loop
\* over hooks_to_call goes on
AfterHook(callback) == "hooks"

\* lines 451-456: the next callback of hooks_to_call is called
_trigger_hooks ==
    /\ wpc = "hooks"
    /\ hooks_to_call # <<>>
    /\ hooks_to_call' = Tail(hooks_to_call)
    /\ hook_errors' = IF HookRaises(Head(hooks_to_call).callback)
                      THEN hook_errors \cup {cur.token}
                      ELSE hook_errors
    /\ wpc' = AfterHook(Head(hooks_to_call).callback)
    /\ UNCHANGED <<sql_queue, registry, close_event, in_transaction, cur, count,
                   committed, pending, conn_transaction, active, cursor_result,
                   callerVars, connVars, retryVars, hookVars, next_uuid, history>>

\* the rows are stored while callbacks are still to be called
_execute_query_store_early ==
    /\ wpc = "hooks"
    /\ results' = StoreRows(results, cur.token, cursor_result)
    /\ select_events' = _notify_query_done(select_events, cur.token)
    /\ outcome' = DictSet(outcome, cur.token, cursor_result)
    /\ cursor_result' = NoValue
    /\ hooks_to_call' = <<>>
    /\ wpc' = "commit"
    /\ UNCHANGED <<sql_queue, close_event, in_transaction, cur, count, committed,
                   pending, conn_transaction, active, hook_errors,
                   callerVars, connVars, retryVars, hookVars, next_uuid, enqueued, consumed>>

\* lines 166-168, 173: _trigger_hooks has returned; the rows are stored
\* unless the token is silent, and the token's event is set
_execute_query_store ==
    /\ wpc = "hooks"
    /\ hooks_to_call = <<>>
    /\ results' = StoreRows(results, cur.token, cursor_result)
    /\ select_events' = _notify_query_done(select_events, cur.token)
    /\ outcome' = DictSet(outcome, cur.token, cursor_result)
    /\ cursor_result' = NoValue
    /\ hooks_to_call' = <<>>
    /\ wpc' = "commit"
    /\ UNCHANGED <<sql_queue, close_event, in_transaction, cur, count, committed,
                   pending, conn_transaction, active, hook_errors,
                   callerVars, connVars, retryVars, hookVars, next_uuid, enqueued, consumed>>

\* lines 162-173: cursor.execute returns or raises.  When it returns,
\* _trigger_hooks takes the callbacks to call; with none to call the rows are
\* stored and the token's event is set in the same step, otherwise after the
\* callbacks.  A sqlite3.Error is caught and stored and the event is set, no
\* callback is called.  An INSERT that fails has still opened its
\* transaction.  Any other exception leaves _execute_query,
\* _execute_query_with_retry (which catches sqlite3.OperationalError only),
\* _process_queries (OperationalError, DatabaseError) and _run, which
\* re-raises: the worker thread ends.
_execute_query ==
    /\ wpc = "executing"
    /\ active' = active - 1
    /\ attempts' = attempts + 1
    /\ LET result == IF cur.query \in {BeginTransaction, Commit, Rollback}
                     THEN ControlExecute(cur.query, conn_transaction)
                     ELSE CursorExecute(cur.query, cur.values,
                                        Applied(committed \o pending))
       IN  CASE result.kind = "rows" ->
                  /\ pending' = IF cur.query \in {Commit, Rollback} THEN <<>>
                                ELSE pending \o Written(cur.query, cur.values)
                  /\ committed' = IF cur.query = Commit
                                  THEN Applied(committed \o pending)
                                  ELSE committed
                  /\ conn_transaction' = TransactionAfter(cur.query, conn_transaction)
                  /\ IF HooksToCall(cur.query) = <<>>
                     THEN /\ results' = StoreRows(results, cur.token, result)
                          /\ select_events' = _notify_query_done(select_events, cur.token)
                          /\ outcome' = DictSet(outcome, cur.token, result)
                          /\ wpc' = "commit"
                          /\ UNCHANGED <<hooks_to_call, cursor_result>>
                     ELSE /\ hooks_to_call' = HooksToCall(cur.query)
                          /\ cursor_result' = result
                          /\ wpc' = "hooks"
                          /\ UNCHANGED <<results, select_events, outcome>>
             [] result.kind = "error" ->
                  /\ results' = _handle_query_error(results, cur.token, result)
                  /\ select_events' = _notify_query_done(select_events, cur.token)
                  /\ outcome' = DictSet(outcome, cur.token, result)
                  /\ wpc' = "commit"
                  /\ conn_transaction' =
                        IF cur.query = InsertMigration
                        THEN TransactionAfter(cur.query, conn_transaction)
                        ELSE conn_transaction
                  /\ UNCHANGED <<committed, pending, hooks_to_call, cursor_result>>
             [] OTHER ->
                  /\ wpc' = "dead"
                  /\ UNCHANGED <<results, select_events, committed, pending,
                                 conn_transaction, outcome, hooks_to_call, cursor_result>>
    /\ UNCHANGED <<sql_queue, close_event, in_transaction, cur, count,
                   callerVars, connVars, retry_count, hookVars, hook_errors, next_uuid, enqueued,
                   consumed>>

\* line 99
ShouldCommit == ~in_transaction /\ (count >= max_count \/ sql_queue = <<>>)

\* lines 99-101: commit outside a transaction, every max_count statements or
\* when the queue is empty
commit ==
    /\ wpc = "commit"
    /\ IF ShouldCommit
       THEN /\ count' = 0
            /\ committed' = Applied(committed \o pending)
            /\ pending' = <<>>
            /\ conn_transaction' = "none"
       ELSE UNCHANGED <<count, committed, pending, conn_transaction>>
    /\ wpc' = "while"
    /\ UNCHANGED <<sql_queue, registry, close_event, in_transaction, cur,
                   active, callerVars, connVars, retryVars, hookVars, workerHooks,
                   next_uuid, history>>

\* What cursor.execute raises while another connection holds the lock of
\* the file for longer than the timeout of the connection.
Locked == Error("database is locked")

\* lines 162, 170-173: cursor.execute raises sqlite3.OperationalError
\* "database is locked".  It is a sqlite3.Error: _execute_query catches it,
\* stores it and sets the event of the token, and returns normally, so the
\* except branch of _execute_query_with_retry (lines 146-154) is not entered.
_execute_query_locked ==
    /\ wpc = "executing"
    /\ active' = active - 1
    /\ attempts' = attempts + 1
    /\ results' = _handle_query_error(results, cur.token, Locked)
    /\ select_events' = _notify_query_done(select_events, cur.token)
    /\ outcome' = DictSet(outcome, cur.token, Locked)
    /\ wpc' = "commit"
    /\ UNCHANGED <<sql_queue, close_event, in_transaction, cur, count, committed,
                   pending, conn_transaction, callerVars, connVars, retry_count, hookVars,
                   workerHooks, next_uuid, enqueued, consumed>>

\* the budget test of line 117 with > for >=
ConnectionError_one_more ==
    /\ pending' = <<>>
    /\ conn_transaction' = "none"
    /\ IF ~auto_reconnect \/ retry_count > max_retries
       THEN /\ wpc' = "dead"
            /\ UNCHANGED retry_count
       ELSE /\ wpc' = "connect"
            /\ retry_count' = retry_count + 1

\* lines 108-122: the connection error is caught, the connection is closed
\* (what was not committed is lost), and the error is raised again when
\* auto_reconnect is off or max_retries reconnections were made: the worker
\* thread ends.  Otherwise retry_count is incremented and the outer loop
\* connects again.
ConnectionError ==
    /\ pending' = <<>>
    /\ conn_transaction' = "none"
    /\ IF ~auto_reconnect \/ retry_count >= max_retries
       THEN /\ wpc' = "dead"
            /\ UNCHANGED retry_count
       ELSE /\ wpc' = "connect"
            /\ retry_count' = retry_count + 1

\* line 78: sqlite3.connect raises sqlite3.OperationalError
connect_error ==
    /\ wpc = "connect"
    /\ opened' = opened + 1
    /\ ConnectionError
    /\ UNCHANGED <<sql_queue, registry, close_event, in_transaction, cur, count,
                   committed, active, callerVars, auto_reconnect, attempts, hookVars, workerHooks,
                   next_uuid, history>>

\* lines 99-101: conn.commit() raises sqlite3.OperationalError
commit_error ==
    /\ wpc = "commit"
    /\ ShouldCommit
    /\ count' = 0
    /\ ConnectionError
    /\ UNCHANGED <<sql_queue, registry, close_event, in_transaction, cur,
                   committed, active, callerVars, connVars, attempts, hookVars, workerHooks,
                   next_uuid, history>>

Worker ==
    \/ connect
    \/ while_test
    \/ queue_get
    \/ queue_get_empty
    \/ _execute_query
    \/ commit

RetryWorker ==
    \/ Worker
    \/ _execute_query_locked
    \/ connect_error
    \/ commit_error

HookWorker ==
    \/ Worker
    \/ _trigger_hooks
    \/ _execute_query_store

Caller(t) ==
    \/ /\ close_event \/ next_uuid < MaxTokens
       /\ \E s \in Submissions : execute(t, s[1], s[2], s[3])
    \/ execute_put(t)
    \/ execute_put_full(t)
    \/ execute_return(t)
    \/ \E token \in ReturnedTokens \cup {NoToken, UnknownToken} : fetch_results(t, token)
    \/ fetch_wait(t)
    \/ close(t)
    \/ close_put(t)
    \/ close_put_full(t)
    \/ close_join(t)

Next == Worker \/ \E t \in Threads : Caller(t)

Spec == Init /\ [][Next]_vars

(***************************************************************************)
(* The worker under callers that use transactions: plain inserts, the      *)
(* three transaction methods and the with block.  A thread uses either the *)
(* methods or one with block.  A row inserted while the transaction flag   *)
(* is set or inside the with block is Bob, any other row is Alice.         *)
(***************************************************************************)
TxMaxTokens == 3

TxCaller(t) ==
    \/ /\ stack[t].method = ""
       /\ stack[t].with \notin {"enter", "exit_raise", "exit_normal"}
       /\ next_uuid < TxMaxTokens
       /\ execute(t, InsertUser,
                  IF in_transaction \/ stack[t].with = "body" THEN Bob ELSE Alice, FALSE)
    \/ execute_put(t)
    \/ execute_put_full(t)
    \/ execute_return(t)
    \/ transaction(t)
    \/ \E exc_type \in BOOLEAN : __exit__(t, exc_type)
    \/ begin_transaction(t)
    \/ commit_transaction(t)
    \/ rollback_transaction(t)
    \/ next_uuid < TxMaxTokens /\ transaction_execute(t)
    \/ transaction_return(t)

TxNext == Worker \/ \E t \in Threads : TxCaller(t)

TxSpec == Init /\ [][TxNext]_vars

(***************************************************************************)
(* The worker under one caller that uses insert, update, delete and select *)
(* with valid and invalid arguments, and that calls _validate_identifier.  *)
(***************************************************************************)
CrudMaxTokens == 1

CrudCaller(t) ==
    \/ \E identifier \in Identifiers : validate_identifier(t, identifier)
    \/ /\ next_uuid < CrudMaxTokens
       /\ \E table_name \in Names, data \in ColumnLists : insert(t, table_name, data)
    \/ /\ next_uuid < CrudMaxTokens
       /\ \E table_name \in Names, data \in ColumnLists, conditions \in ColumnLists :
             update(t, table_name, data, conditions)
    \/ /\ next_uuid < CrudMaxTokens
       /\ \E table_name \in Names, conditions \in ColumnLists :
             delete(t, table_name, conditions)
    \/ /\ next_uuid < CrudMaxTokens
       /\ \E a \in SelectCalls : select(t, a[1], a[2], a[3], a[4], a[5])
    \/ execute_put(t)
    \/ execute_return(t)

CrudNext == Worker \/ CrudCaller("T1")

CrudSpec == Init /\ [][CrudNext]_vars

(***************************************************************************)
(* The worker under one caller that applies migrations, one call after     *)
(* the other.                                                              *)
(***************************************************************************)
MigMaxTokens == 6

MigCaller(t) ==
    \/ \E version \in Versions, up_sql \in UpSqls :
          apply_migration(t, version, MigrationName, up_sql)
    \/ next_uuid < MigMaxTokens /\ migration_execute(t)
    \/ execute_put(t)
    \/ execute_put_full(t)
    \/ execute_return(t)
    \/ migration_raise(t)
    \/ migration_fetch(t)
    \/ fetch_wait(t)
    \/ migration_check(t)
    \/ migration_begin(t)
    \/ migration_begun(t)
    \/ next_uuid < MigMaxTokens /\ transaction_execute(t)
    \/ transaction_return(t)
    \/ migration_next(t)
    \/ migration_commit(t)
    \/ migration_return(t)
    \/ migration_except(t)
    \/ migration_rollback(t)
    \/ migration_reraise(t)

MigNext == Worker \/ MigCaller("T1")

MigSpec == Init /\ [][MigNext]_vars

(***************************************************************************)
(* The worker under one caller that registers and unregisters hooks,       *)
(* inserts rows, selects them and fetches the results.  The caller changes *)
(* the hooks until it has submitted its last statement.                    *)
(***************************************************************************)
HookMaxTokens == 2
MaxHooks == 2

HookCaller(t) ==
    \/ /\ next_uuid < HookMaxTokens
       /\ \E s \in {<<InsertUser, Alice, FALSE>>, <<SelectUsers, NoValues, FALSE>>} :
             execute(t, s[1], s[2], s[3])
    \/ execute_put(t)
    \/ execute_return(t)
    \/ \E token \in ReturnedTokens : fetch_results(t, token)
    \/ fetch_wait(t)
    \/ \E hook_name \in HookNames, callback \in Callbacks :
          /\ Len(DictGet(query_hooks, hook_name, <<>>)) < MaxHooks
          /\ next_uuid < HookMaxTokens
          /\ register_hook(t, hook_name, callback)
    \/ \E hook_name \in HookNames, callback \in Callbacks \cup {NoCallback} :
          next_uuid < HookMaxTokens /\ unregister_hook(t, hook_name, callback)

HookNext == HookWorker \/ HookCaller("T1")

HookSpec == Init /\ [][HookNext]_vars

(***************************************************************************)
(* The worker under callers that insert rows, select them and fetch the    *)
(* results, on a file that another connection may lock and that may fail   *)
(* to open or to commit; the worker is constructed with auto_reconnect on  *)
(* or off.                                                                 *)
(***************************************************************************)
RetryMaxTokens == 2

RetryCaller(t) ==
    \/ /\ next_uuid < RetryMaxTokens
       /\ \E s \in {<<InsertUser, Alice, FALSE>>, <<SelectUsers, NoValues, FALSE>>} :
             execute(t, s[1], s[2], s[3])
    \/ execute_put(t)
    \/ execute_return(t)
    \/ \E token \in ReturnedTokens : fetch_results(t, token)
    \/ fetch_wait(t)

RetryNext == RetryWorker \/ \E t \in Threads : RetryCaller(t)

RetrySpec == RetryInit /\ [][RetryNext]_vars

\* The same with the worker thread scheduled: the loop goes on whenever it
\* can (queue.get has a timeout).  Nothing makes a connection error happen.
RetryLiveSpec == RetryInit /\ [][RetryNext]_vars /\ WF_vars(Worker)

(***************************************************************************)
(* The worker under callers that submit statements and close the worker,   *)
(* with the scheduling the threads get: the worker thread runs whenever it *)
(* can take a step (queue.get has a timeout, nothing else in the loop      *)
(* waits), and a thread inside close() goes on with its put and its join.  *)
(* Nothing is assumed about when a caller submits.                         *)
(***************************************************************************)
LiveMaxTokens == 2

LiveCaller(t) ==
    \/ /\ next_uuid < LiveMaxTokens
       /\ \E s \in Submissions : execute(t, s[1], s[2], s[3])
    \/ execute_put(t)
    \/ execute_put_full(t)
    \/ execute_return(t)
    \/ close(t)
    \/ close_put(t)
    \/ close_put_full(t)
    \/ close_join(t)

LiveNext == Worker \/ \E t \in Threads : LiveCaller(t)

LiveSpec ==
    /\ Init
    /\ [][LiveNext]_vars
    /\ WF_vars(Worker)
    /\ \A t \in Threads : WF_vars(close_put(t) \/ close_put_full(t) \/ close_join(t))

(***************************************************************************)
(* The worker under callers that insert rows, begin a transaction and      *)
(* close the worker; no caller commits or rolls back.                      *)
(***************************************************************************)
ShutMaxTokens == 3

ShutCaller(t) ==
    \/ /\ stack[t].method = ""
       /\ close_event \/ next_uuid < ShutMaxTokens
       /\ execute(t, InsertUser, IF in_transaction THEN Bob ELSE Alice, FALSE)
    \/ execute_put(t)
    \/ execute_put_full(t)
    \/ execute_return(t)
    \/ begin_transaction(t)
    \/ (close_event \/ next_uuid < ShutMaxTokens) /\ transaction_execute(t)
    \/ transaction_return(t)
    \/ stack[t].method = "" /\ close(t)
    \/ close_put(t)
    \/ close_put_full(t)
    \/ close_join(t)

ShutNext == Worker \/ \E t \in Threads : ShutCaller(t)

ShutSpec == Init /\ [][ShutNext]_vars

(***************************************************************************)
(* The worker under one caller that applies one migration and rolls it     *)
(* back, one call after the other.                                         *)
(***************************************************************************)
RbMaxTokens == 10

RbCaller(t) ==
    \/ apply_migration(t, "001", MigrationName, <<InsertBob>>)
    \/ \E down_sql \in DownSqls : rollback_migration(t, "001", down_sql)
    \/ next_uuid < RbMaxTokens /\ migration_execute(t)
    \/ execute_put(t)
    \/ execute_put_full(t)
    \/ execute_return(t)
    \/ migration_raise(t)
    \/ migration_fetch(t)
    \/ fetch_wait(t)
    \/ migration_check(t)
    \/ migration_begin(t)
    \/ migration_begun(t)
    \/ next_uuid < RbMaxTokens /\ transaction_execute(t)
    \/ transaction_return(t)
    \/ migration_next(t)
    \/ migration_commit(t)
    \/ migration_return(t)
    \/ migration_except(t)
    \/ migration_rollback(t)
    \/ migration_reraise(t)

RbNext == Worker \/ RbCaller("T1")

RbSpec == Init /\ [][RbNext]_vars

(***************************************************************************)
(* The worker under a caller T1 that begins, commits and rolls back         *)
(* transactions and inserts Bob, and a caller T2 that inserts Alice and    *)
(* calls commit_transaction and rollback_transaction without ever having   *)
(* begun a transaction.                                                    *)
(***************************************************************************)
OwnMaxTokens == 3

OwnCaller(t) ==
    \/ /\ stack[t].method = ""
       /\ next_uuid < OwnMaxTokens
       /\ execute(t, InsertUser, IF t = "T1" THEN Bob ELSE Alice, FALSE)
    \/ execute_put(t)
    \/ execute_put_full(t)
    \/ execute_return(t)
    \/ t = "T1" /\ begin_transaction(t)
    \/ commit_transaction(t)
    \/ rollback_transaction(t)
    \/ next_uuid < OwnMaxTokens /\ transaction_execute(t)
    \/ transaction_return(t)

OwnNext == Worker \/ \E t \in Threads : OwnCaller(t)

OwnSpec == Init /\ [][OwnNext]_vars

(***************************************************************************)
(* The worker under two callers that each apply the same migration once,   *)
(* at the same time.                                                       *)
(***************************************************************************)
ParMaxTokens == 10

ParCaller(t) ==
    \/ /\ migration[t].method = ""
       /\ apply_migration(t, "001", MigrationName, <<InsertBob>>)
    \/ next_uuid < ParMaxTokens /\ migration_execute(t)
    \/ execute_put(t)
    \/ execute_put_full(t)
    \/ execute_return(t)
    \/ migration_raise(t)
    \/ migration_fetch(t)
    \/ fetch_wait(t)
    \/ migration_check(t)
    \/ migration_begin(t)
    \/ migration_begun(t)
    \/ next_uuid < ParMaxTokens /\ transaction_execute(t)
    \/ transaction_return(t)
    \/ migration_next(t)
    \/ migration_commit(t)
    \/ migration_return(t)
    \/ migration_except(t)
    \/ migration_rollback(t)
    \/ migration_reraise(t)

ParNext == Worker \/ \E t \in Threads : ParCaller(t)

ParSpec == Init /\ [][ParNext]_vars

(***************************************************************************)
(* Properties.                                                             *)
(***************************************************************************)
\* The statements (requests with a truthy query) of a sequence of requests.
Statements(q) == SelectSeq(q, LAMBDA r : Truthy(r.query))

\* The tokens of the requests in the queue.
QueuedTokens == {sql_queue[i].token : i \in 1..Len(sql_queue)}

\* Thread t returns from fetch_results after waiting for the event.
FetchReturns(t) == pc[t] = "wait" /\ pc'[t] = "idle"

\* C1: at most one statement is being executed on the connection at any
\* instant, whatever the caller threads do.
C1_MutualExclusion == active <= 1

\* A statement is executing while one caller is between its put and its
\* return and another statement waits in the queue.
C1_Witness ==
    /\ active = 1
    /\ wpc = "executing"
    /\ \E t \in Threads : pc[t] = "notify_begin"
    /\ Statements(sql_queue) # <<>>

\* C2: the worker loop starts statements in the order execute enqueued them:
\* whenever a statement leaves the queue it is the oldest enqueued statement
\* not yet executed, and it is the one handed to cursor.execute.
C2_FifoOrder ==
    [][Statements(enqueued') # Statements(enqueued) /\ Len(enqueued') < Len(enqueued)
          => /\ Statements(enqueued') = Tail(Statements(enqueued))
             /\ cur' = Head(Statements(enqueued))
             /\ wpc' = "executing"]_vars

\* The first of two enqueued statements is executing, the second still waits.
C2_Witness ==
    /\ wpc = "executing"
    /\ cur.token.uuid = 1
    /\ Len(Statements(enqueued)) = 1
    /\ \A t \in Threads : pc[t] = "idle"

\* C3: the value stored for a completed request is handed to exactly one
\* fetch_results call: the first fetch to return gets it and removes it, every
\* later fetch of the token returns None.
C3_SingleDelivery ==
    [][\A t \in Threads :
          FetchReturns(t) =>
             LET k == local[t].token
             IN  /\ k \in consumed => ret'[t].value = NoValue
                 /\ (k \notin consumed /\ k \in DOMAIN outcome)
                       => /\ ret'[t].value = outcome[k]
                          /\ k \notin DOMAIN results'
                          /\ k \in consumed']_vars

\* Two threads fetched the same token: one holds the value, the other None.
C3_Witness ==
    \E t, u \in Threads :
        /\ t # u
        /\ ret[t].op = "fetch_results" /\ ret[u].op = "fetch_results"
        /\ ret[t].arg = ret[u].arg
        /\ ret[t].arg \in consumed
        /\ ret[t].value.kind \in {"rows", "error"}
        /\ ret[u].value = NoValue

\* C4: a value fetch_results returns for a token is what the statement
\* submitted with that token produced.
C4_OwnOutcome ==
    [][\A t \in Threads :
          (FetchReturns(t) /\ ret'[t].value # NoValue)
             => /\ local[t].token \in DOMAIN outcome
                /\ ret'[t].value = outcome[local[t].token]]_vars

\* The second token was fetched first and returned its error while the rows
\* of the first token are still stored.
C4_Witness ==
    \E t \in Threads :
        /\ ret[t].op = "fetch_results"
        /\ ret[t].arg = Token(2, "")
        /\ ret[t].value.kind = "error"
        /\ Token(1, "") \in DOMAIN results
        /\ results[Token(1, "")].kind = "rows"

\* C5: when the worker loop signals the completion of a request, the event
\* of its token is registered.
C5_EventRegisteredBeforeCompletion ==
    [][(wpc = "executing" /\ wpc' = "commit") => cur.token \in DOMAIN select_events]_vars

\* C6: while the worker loop runs, a fetch_results call never waits for a
\* token whose request the loop has already finished with: the event is set,
\* or the request is still queued or executing.
C6_FetchNeverStuck ==
    \A t \in Threads :
        (pc[t] = "wait" /\ wpc \notin {"stopped", "dead"})
           => \/ select_events[local[t].token]
              \/ local[t].token \in QueuedTokens
              \/ (wpc = "executing" /\ cur.token = local[t].token)

\* C7: fetch_results on None, on a token never issued or on a token already
\* consumed returns None, does not block, and changes neither the queue nor
\* the registry.
C7_FetchNothing ==
    [][\A t \in Threads :
          /\ (pc[t] = "idle" /\ pc'[t] = "idle" /\ ret'[t] # ret[t]
                /\ ret'[t].op = "fetch_results")
                => /\ ret'[t].value = NoValue
                   /\ UNCHANGED <<sql_queue, results, select_events>>
          /\ (pc[t] = "idle" /\ pc'[t] = "wait")
                => /\ local'[t].token \notin {NoToken, UnknownToken}
                   /\ UNCHANGED <<sql_queue, results, select_events>>
          /\ (pc[t] = "wait" /\ local[t].token \in consumed)
                => /\ select_events[local[t].token]
                   /\ pc'[t] = "idle"
                         => /\ ret'[t].value = NoValue
                            /\ UNCHANGED <<sql_queue, results, select_events>>]_vars

\* One thread fetched a consumed token again, the other a token never
\* issued; both got None.
C7_Witness ==
    \E t, u \in Threads :
        /\ ret[t].op = "fetch_results"
        /\ ret[t].arg \in consumed
        /\ ret[t].value = NoValue
        /\ ret[u] = Return("fetch_results", UnknownToken, NoValue)

\* C8: a statement that fails is stored as its token's value and the worker
\* loop goes on.
C8_FailureStoredLoopGoesOn ==
    [][(wpc = "executing" /\ wpc' # "executing"
          /\ CursorExecute(cur.query, cur.values, committed \o pending).kind # "rows")
          => /\ wpc' = "commit"
             /\ cur.token \in DOMAIN results']_vars

\* C9: once close() has set the close event, an execute call raises
\* RuntimeError, does not reach the put and changes neither the queue nor the
\* registry.
C9_ClosedRejects ==
    [][\A t \in Threads :
          (close_event /\ pc[t] = "idle")
             => /\ pc'[t] # "put"
                /\ (ret'[t].op = "execute" /\ ret'[t] # ret[t])
                      => /\ ret'[t].value = Raised("RuntimeError")
                         /\ UNCHANGED <<sql_queue, results, select_events, next_uuid>>]_vars

\* close() has returned in one thread and execute has raised in the other.
C9_Witness ==
    \E t, u \in Threads :
        /\ ret[t] = Return("close", NoToken, NoValue)
        /\ ret[u] = Return("execute", NoToken, Raised("RuntimeError"))

\* C10: after the worker thread has stopped, the queue holds no statement
\* whose execute call returned successfully.
C10_NoStrandedRequest ==
    wpc = "stopped"
       => \A i \in 1..Len(sql_queue) :
             Truthy(sql_queue[i].query) => sql_queue[i].token \notin DOMAIN select_events

\* No other thread than t has called the worker.
Alone(t) ==
    \A u \in Threads \ {t} : pc[u] = "idle" /\ ret[u] = Running /\ stack[u] = NoStack

\* C11: close() returns only after the worker loop has executed what was
\* accepted, committed it, closed the connection and stopped: the loop ends
\* with nothing left uncommitted, and when close() returns to a thread that
\* is the only caller, the loop has ended by closing the connection and no
\* statement is left in the queue.
C11_CloseAfterDrain ==
    [][/\ (wpc = "while" /\ wpc' = "stopped") => pending = <<>>
       /\ \A t \in Threads :
             (pc[t] = "join" /\ pc'[t] = "idle" /\ Alone(t))
                => /\ wpc = "stopped"
                   /\ Statements(sql_queue) = <<>>]_vars

\* C12: on a worker whose close() has returned, a further close() does not
\* raise.
C12_CloseAgain ==
    [][\A t, u \in Threads :
          (t # u /\ ret[u] = Return("close", NoToken, NoValue) /\ pc[t] = "close_put")
             => ret'[t].value.kind # "raise"]_vars

\* The rows the connection sees.
Visible == committed \o pending

\* The number of rows of a sequence that equal row.
CountOf(rows, row) == Len(SelectSeq(rows, LAMBDA r : r = row))

\* Nothing is queued or executing and thread t is in no call.
Settled(t) ==
    /\ sql_queue = <<>>
    /\ wpc \in {"while", "get"}
    /\ pc[t] = "idle"
    /\ stack[t].method = ""

\* C13: when the body of a with block inserted rows and raised, and
\* rollback_transaction() returned, none of the rows is visible once the
\* queue has drained (t is the only caller).
C13_ScopedRollback ==
    \A t \in Threads :
        (Alone(t) /\ Settled(t) /\ stack[t].with = "raised")
           => CountOf(Visible, "Bob") = 0

\* C14: while the transaction opened by an executed BEGIN is open, the
\* commit test of line 99 does not end it.
C14_NoAutoCommitInTransaction ==
    [][(wpc = "commit" /\ conn_transaction = "explicit")
          => (conn_transaction' = "explicit" /\ committed' = committed)]_vars

\* C15: when commit_transaction() or rollback_transaction() returns to the
\* only caller, its COMMIT or ROLLBACK statement is neither queued nor
\* executing.
C15_ReturnsAfterCompletion ==
    [][\A t \in Threads :
          (Alone(t) /\ stack[t].method \in {"commit_transaction", "rollback_transaction"}
             /\ stack'[t].method = "" /\ ret'[t].value = NoValue)
             => /\ \A i \in 1..Len(sql_queue) : sql_queue[i].query \notin {Commit, Rollback}
                /\ ~(wpc = "executing" /\ cur.query \in {Commit, Rollback})]_vars

\* C16: with a single caller, which submits the rows Alice only while no
\* transaction is begun, the execution of a ROLLBACK discards no row Alice.
C16_EarlierRowsSurvive ==
    [][((\E t \in Threads : Alone(t)) /\ wpc = "executing" /\ cur.query = Rollback)
          => CountOf(committed' \o pending', "Alice") = CountOf(Visible, "Alice")]_vars

\* The control statements queued or executing, oldest first.
ControlStatements ==
    SelectSeq((IF wpc = "executing" THEN <<cur>> ELSE <<>>) \o sql_queue,
              LAMBDA r : r.query \in {BeginTransaction, Commit, Rollback})

\* Thread t calls the method: it raises at once or goes on to execute.
Calls(t, method) ==
    /\ stack[t].method = ""
    /\ stack'[t].method = method \/ (ret'[t].op = method /\ ret'[t] # ret[t])

\* The call of thread t raises RuntimeError and changes nothing.
Rejected(t) ==
    /\ ret'[t].value = Raised("RuntimeError")
    /\ stack'[t].method = ""
    /\ UNCHANGED <<sql_queue, in_transaction, next_uuid, select_events>>

\* C17: begin_transaction() while a transaction is open, and
\* commit_transaction() or rollback_transaction() while none is open, raise
\* at once, enqueue nothing and leave the flag unchanged; one thread at a time
\* is inside the three methods and no BEGIN follows a BEGIN in the queue
\* without a COMMIT or ROLLBACK between them.
C17_Rejections ==
    [][/\ \A t \in Threads :
             /\ (Calls(t, "begin_transaction") /\ in_transaction) => Rejected(t)
             /\ (Calls(t, "commit_transaction") /\ ~in_transaction) => Rejected(t)
             /\ (Calls(t, "rollback_transaction") /\ ~in_transaction) => Rejected(t)
       /\ Cardinality({t \in Threads : stack'[t].method # ""}) <= 1
       /\ \A i \in 1..(Len(ControlStatements') - 1) :
             ~(ControlStatements'[i].query = BeginTransaction
                 /\ ControlStatements'[i + 1].query = BeginTransaction)]_vars

\* One thread's begin_transaction() was rejected while the other's
\* transaction was open, and that other thread's rollback_transaction() was
\* rejected after its commit.
C17_Witness ==
    \E t, u \in Threads :
        /\ ret[t] = Return("begin_transaction", NoToken, Raised("RuntimeError"))
        /\ ret[u] = Return("rollback_transaction", NoToken, Raised("RuntimeError"))
        /\ t # u
        /\ ~in_transaction

\* The grammar of an identifier: a letter or underscore, then letters, digits
\* and underscores.
IsIdentifier(chars) ==
    /\ chars # <<>>
    /\ chars[1] \in Letters \cup {"_"}
    /\ \A i \in 2..Len(chars) : chars[i] \in Letters \cup Digits \cup {"_"}

\* Not a string of the grammar.
InvalidIdentifier(identifier) ==
    ~(identifier.type = "str" /\ IsIdentifier(identifier.chars))

\* An order_by that is neither `column` nor `column ASC` / `column DESC`.
MalformedOrderBy(order_by) ==
    /\ order_by.type = "str"
    /\ order_by.chars # <<>>
    /\ LET parts == Split(order_by.chars)
       IN  ~ /\ Len(parts) \in {1, 2}
             /\ IsIdentifier(parts[1])
             /\ Len(parts) = 2 => Upper(parts[2]) \in {<<"ASC">>, <<"DESC">>}

\* Thread t raises ValueError and nothing is enqueued or registered.
RaisesBeforeEnqueue(t) ==
    /\ ret'[t].value = Raised("ValueError")
    /\ pc'[t] = "idle"
    /\ UNCHANGED <<sql_queue, results, select_events, next_uuid>>

\* C18: a call of insert, update, delete or select with an invalid table or
\* column identifier, an empty data or conditions map, a malformed order_by
\* or a limit that is not a non-negative integer raises ValueError, and the
\* queue, the registry and the token counter are unchanged.
C18_InvalidRaisesBeforeEnqueue ==
    [][\A t \in Threads :
          /\ \A table_name \in Names, data \in ColumnLists :
                (insert(t, table_name, data)
                   /\ (data = <<>> \/ InvalidIdentifier(table_name)
                         \/ (\E i \in DOMAIN data : InvalidIdentifier(data[i]))))
                   => RaisesBeforeEnqueue(t)
          /\ \A table_name \in Names, data \in ColumnLists, conditions \in ColumnLists :
                (update(t, table_name, data, conditions)
                   /\ (data = <<>> \/ conditions = <<>> \/ InvalidIdentifier(table_name)
                         \/ (\E i \in DOMAIN data : InvalidIdentifier(data[i]))
                         \/ (\E i \in DOMAIN conditions : InvalidIdentifier(conditions[i]))))
                   => RaisesBeforeEnqueue(t)
          /\ \A table_name \in Names, conditions \in ColumnLists :
                (delete(t, table_name, conditions)
                   /\ (conditions = <<>> \/ InvalidIdentifier(table_name)
                         \/ (\E i \in DOMAIN conditions : InvalidIdentifier(conditions[i]))))
                   => RaisesBeforeEnqueue(t)
          /\ \A a \in SelectCalls :
                (select(t, a[1], a[2], a[3], a[4], a[5])
                   /\ (InvalidIdentifier(a[1])
                         \/ (\E i \in DOMAIN a[2] : InvalidIdentifier(a[2][i]))
                         \/ (\E i \in DOMAIN a[3] : InvalidIdentifier(a[3][i]))
                         \/ MalformedOrderBy(a[4])
                         \/ (a[5] # PyNone /\ (a[5].type # "int" \/ a[5].int < 0))))
                   => RaisesBeforeEnqueue(t)]_vars

\* C19: _validate_identifier returns the identifier if it is a string of the
\* grammar and raises ValueError for every other argument.
C19_ValidatesGrammar ==
    \A t \in Threads :
        ret[t].op = "_validate_identifier"
           => IF InvalidIdentifier(ret[t].arg)
              THEN ret[t].value = Raised("ValueError")
              ELSE ret[t].value = ret[t].arg

C28_FullRejects ==
    [][\A t \in Threads :
          (pc[t] = "put" /\ Len(sql_queue) >= max_queue_size /\ pc'[t] # "put")
             => /\ ret'[t].op = "execute"
                /\ ret'[t].value = Raised("queue.Full")
                /\ local[t].token \notin DOMAIN select_events'
                /\ UNCHANGED <<sql_queue, results, select_events>>]_vars

\* execute has raised queue.Full in a thread.
C28_Witness ==
    \E t \in Threads :
        /\ ret[t].op = "execute"
        /\ ret[t].value.kind = "raise"
        /\ ret[t].value = Raised("queue.Full")

\* A statement of up_sql fails when it is executed.
HasFailing(up_sql) == \E i \in DOMAIN up_sql : up_sql[i] = InsertMissing

\* C21: a call of apply_migration one of whose statements fails does not
\* return True, and the version it was called with (not recorded before) gets
\* no committed ledger row.
C21_FailedStatementRollsBack ==
    \A t \in Threads :
        (migration[t].method = "apply_migration" /\ HasFailing(migration[t].up_sql)
                                                 /\ migration[t].absent)
           => /\ ~(migration[t].at = "none" /\ ret[t].op = "apply_migration"
                                            /\ ret[t].value = PyTrue)
              /\ \A i \in DOMAIN committed : committed[i] # migration[t].version

\* C29: the results map holds no entry for a silent token.
C29_NoValueForSilent ==
    \A k \in DOMAIN results : ~EndsWithSilent(k)

\* C22: rollback_migration removes what the down statements remove and the
\* ledger row in one transaction: during and after a call with the down
\* statement DELETE FROM users, no commit leaves the ledger row of the
\* version on disk without the row the migration had inserted.
C22_RollbackInOneTransaction ==
    \A t \in Threads :
        (migration[t].method = "rollback_migration" /\ migration[t].recorded)
           => ((\E i \in DOMAIN committed : committed[i] = migration[t].version)
                  => \E i \in DOMAIN committed : committed[i] = "Bob")

\* C30: the loop ends with a final commit: when it stops, what the executed
\* statements have written since the last commit is on disk, the transaction
\* flag being set or not.
C30_FinalCommit ==
    [][(wpc = "while" /\ wpc' = "stopped")
          => committed' = Applied(committed \o pending)]_vars

C24_HooksBeforePublication ==
    [][/\ hooks_to_call # <<>> =>
             /\ wpc = "hooks"
             /\ cur.token \notin DOMAIN outcome
             /\ cur.token \notin consumed
             /\ cur.token \in DOMAIN select_events => ~select_events[cur.token]
             /\ \A t \in Threads : ret[t].op = "fetch_results" => ret[t].arg # cur.token
       /\ \A k \in DOMAIN outcome' \ DOMAIN outcome : hooks_to_call = <<>>]_vars

\* fetch_results has returned the rows of a statement for which a callback
\* was called and raised.
C24_Witness ==
    \E t \in Threads :
        /\ ret[t].op = "fetch_results"
        /\ ret[t].value.kind = "rows"
        /\ ret[t].arg \in hook_errors

\* C25: a callback is not called under a hook name for a statement submitted
\* after an unregister_hook call covering the pair has returned;
\* unregister_hook without a callback leaves no callback under the hook name;
\* every unregister_hook call leaves the other hook names as they are.
C25_Unregistered ==
    [][/\ (wpc = "hooks" /\ hooks_to_call # <<>>) =>
             LET hook == <<Head(hooks_to_call).event, Head(hooks_to_call).callback>>
             IN  hook \in DOMAIN removed => cur.token.uuid <= removed[hook]
       /\ \A t \in Threads, hook_name \in HookNames, callback \in Callbacks \cup {NoCallback} :
             unregister_hook(t, hook_name, callback) =>
                /\ callback = NoCallback => HooksOf(hook_name)' = <<>>
                /\ callback # NoCallback =>
                      \A i \in DOMAIN HooksOf(hook_name)' :
                         HooksOf(hook_name)'[i].callback # callback
                /\ \A other \in HookNames \ {hook_name} :
                      /\ HooksOf(other)' = HooksOf(other)
                      /\ (other \in DOMAIN query_hooks') = (other \in DOMAIN query_hooks)]_vars

\* The callback failing was unregistered from on_query while callbacks were
\* registered under on_insert, and the loop has since executed a statement
\* submitted after that and called the callbacks left.
C25_Witness ==
    /\ <<"on_query", "failing">> \in DOMAIN removed
    /\ "on_insert" \in DOMAIN query_hooks
    /\ query_hooks["on_insert"] # <<>>
    /\ wpc = "hooks"
    /\ hooks_to_call = <<>>
    /\ cur.token.uuid > removed[<<"on_query", "failing">>]

\* C26: the error of a statement that failed because the database is locked
\* is delivered only after the statement was retried max_retries times, that
\* is after max_retries + 1 calls of cursor.execute.
C26_LockedRetried ==
    [][\A k \in DOMAIN outcome' \ DOMAIN outcome :
          outcome'[k] = Locked => attempts' = max_retries + 1]_vars

\* C27: once the worker thread has ended after max_retries reconnections, no
\* execute call puts a request: none goes on to the put of line 208.
C27_ExecuteFailsAfterExhaustion ==
    [][(wpc = "dead" /\ retry_count >= max_retries)
          => \A t \in Threads : pc[t] = "idle" => pc'[t] # "put"]_vars

\* C31: once close() has set the event, the worker loop ends after finitely
\* many steps, whatever the queue holds, and every close() call that is at
\* its put or its join returns.
C31_CloseTerminates ==
    /\ close_event ~> (wpc \in {"stopped", "dead"})
    /\ \A t \in Threads : (pc[t] \in {"close_put", "join"}) ~> (ret[t].op = "close")

\* close() has returned after the loop executed a statement, consumed the
\* sentinel and stopped with an empty queue.
C31_Witness ==
    \E t \in Threads :
        /\ ret[t] = Return("close", NoToken, NoValue)
        /\ wpc = "stopped"
        /\ cur = Sentinel
        /\ sql_queue = <<>>
        /\ committed # <<>>

\* C32: outside a transaction the statements executed since the last commit
\* stay below max_count at the end of each iteration of the loop, and nothing
\* executed is left uncommitted when the loop finds the queue empty.
C32_AtMostOneBatchUncommitted ==
    [][/\ (wpc = "commit" /\ wpc' = "while" /\ ~in_transaction) => count' < max_count
       /\ (wpc = "get" /\ wpc' = "while" /\ ~in_transaction) => pending = <<>>]_vars

\* C33: the worker thread calls sqlite3.connect at most max_retries + 1
\* times; after a connection error the loop connects again only while
\* auto_reconnect is on and fewer than max_retries reconnections were made,
\* otherwise the worker thread ends.
C33_BoundedReconnects ==
    [][/\ opened' <= max_retries + 1
       /\ (wpc' = "connect" /\ (wpc # "connect" \/ opened' # opened))
             => (auto_reconnect /\ opened' <= max_retries)
       /\ (wpc \in {"connect", "commit"} /\ wpc' \notin {wpc, "connect", "while"}
                                         /\ (~auto_reconnect \/ opened' > max_retries))
             => wpc' = "dead"]_vars

\* The worker thread has ended after max_retries + 1 calls of sqlite3.connect.
C33_Witness ==
    /\ wpc = "dead"
    /\ auto_reconnect
    /\ opened = max_retries + 1
    /\ retry_count = max_retries

\* C34: the registry (self._select_events, self._results) holds no entry
\* for a silent token whose event is set, and none for a token whose value a
\* fetch_results call has received.
C34_RegistryBounded ==
    \A k \in DOMAIN select_events \cup DOMAIN results :
        /\ k \notin consumed
        /\ (EndsWithSilent(k) /\ k \in DOMAIN select_events) => ~select_events[k]

\* The loop takes the oldest request off the queue.
Dequeues ==
    /\ sql_queue # <<>>
    /\ cur' = Head(sql_queue)
    /\ sql_queue' = Tail(sql_queue)

\* C35: a connection error leaves the queue and the request the loop holds
\* as they are; the loop starts executing only a request it has just taken
\* off the head of the queue, calls cursor.execute for it once, and no token
\* is in the queue twice or both in the queue and in the loop's hands.
C35_ReconnectKeepsRequests ==
    [][/\ (wpc \in {"connect", "commit"} /\ wpc' \in {"connect", "dead"}
                                         /\ (wpc' # wpc \/ opened' # opened))
             => UNCHANGED <<sql_queue, cur>>
       /\ (wpc' = "executing" /\ wpc # "executing") => Dequeues
       /\ cur' # cur => Dequeues
       /\ attempts' <= 1
       /\ \A i, j \in 1..Len(sql_queue') :
             /\ i # j => sql_queue'[i].token # sql_queue'[j].token
             /\ sql_queue'[i].token # cur'.token]_vars

\* After a connection error and a reconnection the loop has executed a
\* request it took off the queue, and another one is waiting.
C35_Witness ==
    /\ opened = 2
    /\ retry_count = 1
    /\ wpc = "commit"
    /\ attempts = 1
    /\ cur # Sentinel
    /\ sql_queue # <<>>

\* C36: of two threads that called apply_migration with the same version,
\* at most one got True.
C36_OneApplies ==
    ~(JustApplied("T1", "001") /\ JustApplied("T2", "001"))

\* C37: when begin_transaction() ends because its self.execute raised (the
\* queue stayed full, or the worker is closed), self._in_transaction is False.
C37_FailedBeginLeavesNoTransaction ==
    [][\A t \in Threads :
          (/\ stack[t].method = "begin_transaction"
           /\ ret'[t].op = "begin_transaction"
           /\ ret'[t].value.kind = "raise") => ~in_transaction']_vars

\* The apply_migration or rollback_migration call of thread t is in its
\* except branch because its begin_transaction() raised RuntimeError: no
\* statement of the call has been handed over yet.
BeginRejected(t) ==
    /\ migration[t].at = "except"
    /\ migration[t].err = Raised("RuntimeError")
    /\ migration[t].statements # <<>>
    /\ migration[t].statements = MigrationStatements(migration[t].up_sql)

\* Thread u is inside the transaction its migration call began.
OwnsTransaction(u) ==
    /\ migration[u].at \in {"statements", "record", "commit"}
    /\ in_transaction

\* C38: a migration call whose begin_transaction() was rejected while the
\* other thread's transaction is open puts no ROLLBACK on the queue and does
\* not clear self._in_transaction.
C38_RejectedMigrationKeepsTransaction ==
    [][\A t, u \in Threads :
          (t # u /\ BeginRejected(t) /\ OwnsTransaction(u)) =>
              /\ ~(/\ pc[t] = "put"
                   /\ local[t].query = Rollback
                   /\ Len(sql_queue') > Len(sql_queue))
              /\ ~(/\ stack[t].method = "rollback_transaction"
                   /\ stack'[t].method = ""
                   /\ ~in_transaction')]_vars

\* C39: T2 never began a transaction.  A row T2 inserted is never discarded
\* (it stays among the pending or the committed rows), and T2's
\* commit_transaction() and rollback_transaction() raise at once.
C39_TransactionBelongsToOwner ==
    [][/\ CountOf(pending' \o committed', "Alice") >= CountOf(pending \o committed, "Alice")
       /\ (Calls("T2", "commit_transaction") \/ Calls("T2", "rollback_transaction"))
             => Rejected("T2")]_vars

\* The INSERT statements that succeeded and whose event is set.
SignaledInserts ==
    {k \in DOMAIN outcome \cap DOMAIN select_events :
        EndsWithSilent(k) /\ outcome[k].kind = "rows" /\ select_events[k]}

\* C40: while the worker thread lives, as many rows get committed as
\* INSERT statements have succeeded and been signaled.
C40_SignaledIsCommitted ==
    \A n \in 1..RetryMaxTokens :
        (Cardinality(SignaledInserts) >= n)
            ~> (CountOf(committed, "Alice") >= n \/ wpc = "dead")

====
